---- MODULE Spec2Model ----
(***************************************************************************)
(* A model of the actix supervisor (src/src/supervisor.rs) together with   *)
(* the parts of the runtime it drives: the wrapped Context, the local and  *)
(* the sync mailbox, the addresses held by senders and the Requests        *)
(* returned by send.                                                        *)
(*                                                                         *)
(* Supervisor::poll is modelled position by position (pc), because sync    *)
(* senders on other threads run concurrently with it; everything that the  *)
(* arbiter thread does between two reads of shared state is one action.    *)
(* The Context, the channels and the Request type are not part of the      *)
(* source files at hand; they are modelled from the specification text.    *)
(***************************************************************************)
EXTENDS Integers, Sequences, FiniteSets, TLC

VARIABLES
    mode,         \* how the actor was started: "start" (Supervisor::start),
                  \* "start_in" (Supervisor::start_in), "plain" (no supervisor)
    task,         \* the future spawned on the arbiter (the Supervisor, or the
                  \* Context of an unsupervised actor): "none", "running", "done"
    pc,           \* position of the arbiter thread inside Supervisor::poll
    not_ready,    \* the local variable not_ready of Supervisor::poll
    ctx,          \* Supervisor.ctx: the wrapped Context
    act,          \* the actor value owned by ctx
    unsync_msgs,  \* Supervisor.unsync_msgs: the local mailbox
    sync_msgs,    \* Supervisor.sync_msgs: Option of the sync mailbox
    addr,         \* the address each sender holds
    req,          \* the Request of every message (for try_send and do_send,
                  \* which return no Request: the result of the call)
    env,          \* the message a Request still holds (mailbox was full), or
                  \* the message that try_send handed back with its error
    handled,      \* the messages whose handler was invoked, in order
    cur,          \* the envelope whose handler is running
    running,      \* number of handler invocations in progress
    hist          \* counters of the events the claims speak about

vars == <<mode, task, pc, not_ready, ctx, act, unsync_msgs, sync_msgs, addr,
          req, env, handled, cur, running, hist>>

(***************************************************************************)
(* Bounds of the model.                                                    *)
(***************************************************************************)
MaxMsgs == 2
MaxHandles == 2
\* Capacity of the mailbox of an unsupervised actor (scaled down).
MailboxCapacity == 1

LocalSenders == {"l1"}
SyncSenders == {"s1"}
Senders == LocalSenders \cup SyncSenders

\* What a handler does with the message it is given.
Kinds == {"Val", "Die", "Panic", "Fut", "Wait"}

MsgIds == Senders \X (1 .. MaxMsgs)
NoMsg == [id |-> <<"none", 0>>, kind |-> "None"]
NoAddr == [n |-> 0, gen |-> 0]

\* The capacity the supervisor gives its mailboxes: 0 means unbounded.
SupervisorCapacity == 0

\* The actor runs behind a supervisor.
Supervised == mode \in {"start", "start_in"}

\* The capacity of the mailbox that senders push into.
Capacity == IF mode = "plain" THEN MailboxCapacity ELSE SupervisorCapacity

VetoPolicies == {"never", "always"}

Range(f) == {f[i] : i \in DOMAIN f}

(***************************************************************************)
(* The actor value.  policy is the behaviour of its stopping() hook (the   *)
(* restore_after_stop field of the test actor), count the number of        *)
(* messages it has processed, the flags are those of the lifecycle tests.  *)
(***************************************************************************)
NewActor(p) ==
    [policy |-> p, count |-> 0, started |-> FALSE, stopping |-> FALSE,
     stopped |-> FALSE, vetoed |-> FALSE, restarted |-> 0]

\* stopping as it would be if it vetoed whatever restore_after_stop says.
Vetoes_always(a) == TRUE

\* stopping as it would be if it never vetoed.
Vetoes_never(a) == FALSE

\* MyActor::stopping returns false ("continue") when it vetoes the stop.
Vetoes(a) == a.policy = "always"

(***************************************************************************)
(* The Context.                                                            *)
(***************************************************************************)
NewContext ==
    [state |-> "NEW", stopReq |-> FALSE, wait |-> "none",
     items |-> {}, ready |-> {}, poisoned |-> FALSE]

CtxStop(c) == [c EXCEPT !.stopReq = TRUE]

CtxWaiting(c) == c.wait # "none"

CtxIsAlive(c) == c.state # "STOPPED" /\ ~c.poisoned

CtxEnded(c) == c.poisoned \/ c.state = "STOPPED"

\* The result of ctx.poll(): "Err", "Ready" or "NotReady".
CtxPollResult(c, a) ==
    IF c.poisoned THEN "Err"
    ELSE IF c.state = "STOPPED" THEN "Ready"
    ELSE IF c.stopReq /\ ~Vetoes(a) THEN "Ready"
    ELSE "NotReady"

\* The context after ctx.poll(): started hook, sub-futures, wait marker,
\* termination check.
CtxPollCtx(c, a) ==
    IF CtxEnded(c) THEN c
    ELSE LET c1 == [c EXCEPT !.state = IF @ = "NEW" THEN "RUNNING" ELSE @,
                             !.items = @ \ c.ready,
                             !.ready = {},
                             !.wait = IF @ = "ready" THEN "none" ELSE @]
         IN  IF ~c.stopReq THEN c1
             ELSE IF Vetoes(a)
                  THEN [c1 EXCEPT !.state = "STOPPING", !.stopReq = FALSE]
                  ELSE [c1 EXCEPT !.state = "STOPPED", !.stopReq = FALSE]

\* The actor after ctx.poll(): the lifecycle hooks that ran.
CtxPollAct(c, a) ==
    IF CtxEnded(c) THEN a
    ELSE LET a1 == [a EXCEPT !.started = TRUE]
         IN  IF ~c.stopReq THEN a1
             ELSE IF Vetoes(a)
                  THEN [a1 EXCEPT !.stopping = TRUE, !.vetoed = TRUE]
                  ELSE [a1 EXCEPT !.stopping = TRUE, !.stopped = TRUE]

\* The response futures that complete in ctx.poll().
CtxPollDone(c) == IF CtxEnded(c) THEN {} ELSE c.ready

(***************************************************************************)
(* Requests and reply channels.                                            *)
(***************************************************************************)
\* The reply is sent on the reply channel of each envelope in ids.
ReplySent(r, ids) ==
    [i \in MsgIds |-> IF i \in ids /\ r[i] = "queued" THEN "replied" ELSE r[i]]

\* The reply channel of each envelope in ids is dropped.
ReplyDropped(r, ids) ==
    [i \in MsgIds |-> IF i \in ids /\ r[i] = "queued" THEN "closed" ELSE r[i]]

EnvIds(q) == {q[i].id : i \in {j \in DOMAIN q : q[j].kind # "Upgrade"}}

SentBy(s) == Cardinality({i \in MsgIds : i[1] = s /\ req[i] # "unsent"})

(***************************************************************************)
(* Mailboxes and addresses.                                                *)
(***************************************************************************)
UnsyncSenders ==
    {s \in LocalSenders : addr[s].n > 0 /\ addr[s].gen = unsync_msgs.gen}

SyncSendersAlive ==
    {s \in SyncSenders : addr[s].n > 0 /\ addr[s].gen = sync_msgs.gen}

\* A Request that still holds its message also holds a clone of the sender.
SyncParked == {i \in MsgIds : i[1] \in SyncSenders /\ req[i] = "held"}

\* The receiver half of the local mailbox is alive.
UnsyncRxAlive(g) == task = "running" /\ unsync_msgs.gen = g

\* The receiver half of the sync mailbox is alive: it is owned by the
\* Execute closure first and by the supervisor afterwards.
SyncRxAlive(g) == sync_msgs.some /\ task # "done" /\ sync_msgs.gen = g

\* Address::connected()
AddrConnected(s) ==
    /\ addr[s].n > 0
    /\ IF s \in LocalSenders THEN UnsyncRxAlive(addr[s].gen)
                             ELSE SyncRxAlive(addr[s].gen)

\* connected as it would be if the sync mailbox were forgotten.
connected_unsync_only == UnsyncSenders # {}

\* Supervisor::connected
connected ==
    \/ UnsyncSenders # {}
    \/ sync_msgs.some /\ (SyncSendersAlive # {} \/ SyncParked # {})

(***************************************************************************)
(* Initial state: no supervisor yet.  The policy of the actor that the     *)
(* factory will build is fixed here.                                       *)
(***************************************************************************)
Init ==
    /\ mode = "none"
    /\ task = "none"
    /\ pc = "parked"
    /\ not_ready = TRUE
    /\ ctx = NewContext
    /\ \E p \in VetoPolicies : act = NewActor(p)
    /\ unsync_msgs = [gen |-> 0, q |-> <<>>]
    /\ sync_msgs = [some |-> FALSE, gen |-> 0, q |-> <<>>]
    /\ addr = [s \in Senders |-> NoAddr]
    /\ req = [i \in MsgIds |-> "unsent"]
    /\ env = [i \in MsgIds |-> "None"]
    /\ handled = <<>>
    /\ cur = NoMsg
    /\ running = 0
    /\ hist = [sent |-> 0, factory |-> 0, ctxnew |-> 0,
               restarts |-> 0, atRestart |-> {}, lost |-> {},
               enq |-> [s \in Senders |-> <<>>], parked |-> {},
               given |-> [i \in MsgIds |-> "None"],
               reply |-> [i \in MsgIds |-> 0],
               cycle |-> 0,
               quiet |-> FALSE,
               regs |-> [wait |-> FALSE, unsync |-> 0, sync |-> 0]]

\* The factory closure f(&mut ctx): builds the actor value.
Factory(a) == NewActor(a.policy)

(***************************************************************************)
(* Supervisor::start and Supervisor::start_in                              *)
(***************************************************************************)
\* The fields of a freshly built supervisor (both starts build it alike).
CreateSupervisor ==
    /\ ctx' = NewContext
    /\ act' = Factory(act)
    /\ task' = "running"
    /\ pc' = "parked"
    /\ hist' = [hist EXCEPT !.factory = @ + 1, !.ctxnew = @ + 1]

start ==
    /\ mode = "none"
    /\ mode' = "start"
    /\ CreateSupervisor
    /\ addr' = [addr EXCEPT !["l1"] = [n |-> 1, gen |-> unsync_msgs.gen]]
    /\ UNCHANGED <<not_ready, unsync_msgs, sync_msgs, req, env, handled, cur,
                   running>>

\* start_in up to its return: the channel exists, the closure is in flight.
start_in ==
    /\ mode = "none"
    /\ mode' = "start_in"
    /\ sync_msgs' = [sync_msgs EXCEPT !.some = TRUE]
    /\ addr' = [addr EXCEPT !["s1"] = [n |-> 1, gen |-> sync_msgs.gen]]
    /\ UNCHANGED <<task, pc, not_ready, ctx, act, unsync_msgs, req, env,
                   handled, cur, running, hist>>

\* The Execute closure as it would be if it made a channel of its own for
\* the supervisor instead of taking the receiver that start_in created.
Execute_ownchannel ==
    /\ mode = "start_in"
    /\ task = "none"
    /\ CreateSupervisor
    /\ sync_msgs' = [sync_msgs EXCEPT !.gen = @ + 1, !.q = <<>>]
    /\ req' = ReplyDropped(req, EnvIds(sync_msgs.q))
    /\ UNCHANGED <<mode, not_ready, unsync_msgs, addr, env, handled, cur,
                   running>>

\* The Execute closure of start_in, run by the target arbiter.
Execute ==
    /\ mode = "start_in"
    /\ task = "none"
    /\ CreateSupervisor
    /\ UNCHANGED <<mode, not_ready, unsync_msgs, sync_msgs, addr, req, env,
                   handled, cur, running>>

\* A sender that is handed one more address of the channel of generation g
\* (handles to an older channel are of no further interest to the model).
Handed(a, g) ==
    IF a.n > 0 /\ a.gen = g /\ a.n < MaxHandles THEN [a EXCEPT !.n = @ + 1]
    ELSE IF a.n > 0 /\ a.gen = g THEN a
    ELSE [n |-> 1, gen |-> g]

\* Supervisor::remote_address: the sync mailbox is created on first use.
\* remote_address as it would be without the is_none test: every call
\* makes a channel of its own and replaces the receiver.
remote_address_fresh ==
    [sync_msgs EXCEPT !.some = TRUE, !.gen = @ + 1, !.q = <<>>]

remote_address == [sync_msgs EXCEPT !.some = TRUE]

(***************************************************************************)
(* Supervisor::restart                                                     *)
(***************************************************************************)
\* restart as it would be if the envelope lost with the old context were
\* pushed back into the local mailbox.
restart_requeue ==
    /\ ctx' = NewContext
    /\ act' = [act EXCEPT !.restarted = @ + 1]
    /\ req' = ReplyDropped(req, ctx.items)
    /\ hist' = [hist EXCEPT !.restarts = @ + 1, !.ctxnew = @ + 1]
    /\ unsync_msgs' = [unsync_msgs EXCEPT !.q =
          IF Len(handled) > 0 /\ handled[Len(handled)][1] \in LocalSenders
          THEN Append(@, [id |-> handled[Len(handled)], kind |-> "Val"])
          ELSE @]
    /\ UNCHANGED <<sync_msgs, handled>>

\* restart as it would be if the supervisor were rebuilt around new
\* receivers instead of keeping the ones its addresses point to.
restart_newmailbox ==
    /\ ctx' = NewContext
    /\ act' = [act EXCEPT !.restarted = @ + 1]
    /\ req' = ReplyDropped(req, ctx.items \cup EnvIds(unsync_msgs.q)
                                          \cup EnvIds(sync_msgs.q))
    /\ hist' = [hist EXCEPT !.restarts = @ + 1, !.ctxnew = @ + 1]
    /\ unsync_msgs' = [gen |-> unsync_msgs.gen + 1, q |-> <<>>]
    /\ sync_msgs' = [sync_msgs EXCEPT !.gen = @ + 1, !.q = <<>>]
    /\ UNCHANGED handled

\* restart as it would be if it emptied the mailboxes.
restart_clearq ==
    /\ ctx' = NewContext
    /\ act' = [act EXCEPT !.restarted = @ + 1]
    /\ req' = ReplyDropped(req, ctx.items \cup EnvIds(unsync_msgs.q)
                                          \cup EnvIds(sync_msgs.q))
    /\ hist' = [hist EXCEPT !.restarts = @ + 1, !.ctxnew = @ + 1,
                            !.atRestart = @ \cup EnvIds(unsync_msgs.q)
                                            \cup EnvIds(sync_msgs.q)]
    /\ unsync_msgs' = [unsync_msgs EXCEPT !.q = <<>>]
    /\ sync_msgs' = [sync_msgs EXCEPT !.q = <<>>]
    /\ UNCHANGED handled

\* restart as it would be if it called the factory again.
restart_factory ==
    /\ ctx' = NewContext
    /\ act' = [Factory(act) EXCEPT !.restarted = act.restarted + 1]
    /\ req' = ReplyDropped(req, ctx.items)
    /\ hist' = [hist EXCEPT !.restarts = @ + 1, !.ctxnew = @ + 1,
                            !.factory = @ + 1]
    /\ UNCHANGED <<unsync_msgs, sync_msgs, handled>>

\* restart as it would be if the actor value were not moved into the new
\* context but built anew.
restart_newactor ==
    /\ ctx' = NewContext
    /\ act' = [NewActor(act.policy) EXCEPT !.restarted = act.restarted + 1]
    /\ req' = ReplyDropped(req, ctx.items)
    /\ hist' = [hist EXCEPT !.restarts = @ + 1, !.ctxnew = @ + 1]
    /\ UNCHANGED <<unsync_msgs, sync_msgs, handled>>

\* restart as it would be if the response futures of the old context were
\* carried over into the new one.
restart_keepfutures ==
    /\ ctx' = [NewContext EXCEPT !.items = ctx.items, !.ready = ctx.ready]
    /\ act' = [act EXCEPT !.restarted = @ + 1]
    /\ hist' = [hist EXCEPT !.restarts = @ + 1, !.ctxnew = @ + 1,
                            !.atRestart = @ \cup EnvIds(unsync_msgs.q)
                                            \cup EnvIds(sync_msgs.q),
                            !.lost = @ \cup ctx.items]
    /\ UNCHANGED <<unsync_msgs, sync_msgs, handled, req>>

\* restart as it would be if the old context were leaked instead of being
\* consumed: the reply channels of its response futures are never dropped.
restart_forget ==
    /\ ctx' = NewContext
    /\ act' = [act EXCEPT !.restarted = @ + 1]
    /\ hist' = [hist EXCEPT !.restarts = @ + 1, !.ctxnew = @ + 1,
                            !.atRestart = @ \cup EnvIds(unsync_msgs.q)
                                            \cup EnvIds(sync_msgs.q),
                            !.lost = @ \cup ctx.items]
    /\ UNCHANGED <<unsync_msgs, sync_msgs, handled, req>>

\* restart as it would be without the call of restarting().
restart_nohook ==
    /\ ctx' = NewContext
    /\ act' = act
    /\ req' = ReplyDropped(req, ctx.items)
    /\ hist' = [hist EXCEPT !.restarts = @ + 1, !.ctxnew = @ + 1,
                            !.atRestart = @ \cup EnvIds(unsync_msgs.q)
                                            \cup EnvIds(sync_msgs.q),
                            !.lost = @ \cup ctx.items]
    /\ UNCHANGED <<unsync_msgs, sync_msgs, handled>>

restart ==
    /\ ctx' = NewContext
    /\ act' = [act EXCEPT !.restarted = @ + 1]
    /\ req' = ReplyDropped(req, ctx.items)
    /\ hist' = [hist EXCEPT !.restarts = @ + 1, !.ctxnew = @ + 1,
                            !.atRestart = @ \cup EnvIds(unsync_msgs.q)
                                            \cup EnvIds(sync_msgs.q),
                            !.lost = @ \cup ctx.items]
    /\ UNCHANGED <<unsync_msgs, sync_msgs, handled>>

(***************************************************************************)
(* Supervisor::poll                                                        *)
(***************************************************************************)
\* The top of 'outer as it would be without stopping the context of a
\* disconnected supervisor.
PollOuter_nostop ==
    /\ Supervised
    /\ task = "running"
    /\ pc \in {"parked", "outer"}
    /\ pc' = "ctxpoll"
    /\ UNCHANGED <<mode, task, not_ready, ctx, act, unsync_msgs, sync_msgs,
                   addr, req, env, handled, cur, running, hist>>

\* The top of 'outer as it would be if the context were stopped without
\* asking whether the supervisor is connected.
PollOuter_alwaysstop ==
    /\ Supervised
    /\ task = "running"
    /\ pc \in {"parked", "outer"}
    /\ ctx' = CtxStop(ctx)
    /\ pc' = "ctxpoll"
    /\ UNCHANGED <<mode, task, not_ready, act, unsync_msgs, sync_msgs, addr,
                   req, env, handled, cur, running, hist>>

\* Top of 'outer, reached when the arbiter polls the parked task and on
\* every continue 'outer: a disconnected supervisor stops the context.
PollOuterBody ==
    /\ Supervised
    /\ task = "running"
    /\ pc \in {"parked", "outer"}
    /\ ctx' = IF ~connected THEN CtxStop(ctx) ELSE ctx
    /\ pc' = "ctxpoll"
    /\ UNCHANGED <<mode, task, not_ready, act, unsync_msgs, sync_msgs, addr,
                   req, env, handled, cur, running>>

PollOuter == PollOuterBody /\ UNCHANGED hist

\* The same step, counting: a call of poll starts a new cycle.
PollOuterCounted ==
    /\ PollOuterBody
    /\ hist' = [hist EXCEPT !.cycle = IF pc = "parked" THEN 0 ELSE @]

\* match ctx.poll()
PollCtxBody ==
    /\ pc = "ctxpoll"
    /\ ctx' = CtxPollCtx(ctx, act)
    /\ act' = CtxPollAct(ctx, act)
    /\ req' = ReplySent(req, CtxPollDone(ctx))
    /\ IF CtxPollResult(ctx, act) = "NotReady"
       THEN /\ pc' = IF CtxWaiting(ctx') THEN "parked" ELSE "unsync"
            /\ not_ready' = TRUE
       ELSE /\ pc' = "ended"
            /\ not_ready' = TRUE
    /\ UNCHANGED <<mode, task, unsync_msgs, sync_msgs, addr, env, handled,
                   cur, running>>

PollCtx == PollCtxBody /\ UNCHANGED hist

\* The supervisor's future resolves: the executor drops it, and with it
\* the context and both receivers.
Terminate ==
    /\ task' = "done"
    /\ pc' = "parked"
    /\ req' = ReplyDropped(req, ctx.items \cup EnvIds(unsync_msgs.q)
                                          \cup EnvIds(sync_msgs.q))
    /\ unsync_msgs' = [unsync_msgs EXCEPT !.q = <<>>]
    /\ sync_msgs' = [sync_msgs EXCEPT !.q = <<>>]
    /\ UNCHANGED <<ctx, act, handled, hist>>

\* The arm as it would be if the loop went on with the mailboxes after
\* restart() instead of continuing 'outer with a poll of the new context.
PollEnded_nopoll ==
    /\ pc = "ended"
    /\ IF ~connected
       THEN Terminate
       ELSE /\ restart
            /\ pc' = "unsync"
            /\ UNCHANGED task
    /\ UNCHANGED <<mode, not_ready, addr, env, cur, running>>

\* The arm Ok(Async::Ready(_)) | Err(_) of match ctx.poll()
PollEnded ==
    /\ pc = "ended"
    /\ IF ~connected
       THEN Terminate
       ELSE /\ restart
            /\ pc' = "outer"
            /\ UNCHANGED task
    /\ UNCHANGED <<mode, not_ready, addr, env, cur, running>>

\* env.handle as it would be if the handler were started without being
\* run to its end before the loop goes on.
HandlerEnter_detached(e, back) ==
    /\ cur' = e
    /\ running' = running + 1
    /\ handled' = Append(handled, e.id)
    /\ pc' = IF back = "h_unsync" THEN "unsync" ELSE "sync"

\* env.handle(act, ctx): the handler is entered.
HandlerEnter(e, back) ==
    /\ cur' = e
    /\ running' = running + 1
    /\ handled' = Append(handled, e.id)
    /\ pc' = back

\* The loop over the local mailbox as it would be without the check of
\* ctx.waiting().
PollUnsync_nowait ==
    /\ pc = "unsync"
    /\ IF ~CtxIsAlive(ctx)
       THEN /\ pc' = "outer"
            /\ UNCHANGED <<not_ready, unsync_msgs, sync_msgs, addr, handled,
                           cur, running>>
       ELSE IF unsync_msgs.q = <<>>
       THEN /\ pc' = "sync"
            /\ UNCHANGED <<not_ready, unsync_msgs, sync_msgs, addr, handled,
                           cur, running>>
       ELSE LET msg == Head(unsync_msgs.q)
            IN  /\ not_ready' = FALSE
                /\ unsync_msgs' = [unsync_msgs EXCEPT !.q = Tail(@)]
                /\ IF msg.kind = "Upgrade"
                   THEN /\ sync_msgs' = remote_address
                        /\ addr' = [addr EXCEPT ![msg.id[1]] =
                                      Handed(@, sync_msgs.gen)]
                        /\ UNCHANGED <<pc, handled, cur, running>>
                   ELSE /\ HandlerEnter(msg, "h_unsync")
                        /\ UNCHANGED <<sync_msgs, addr>>
    /\ UNCHANGED <<mode, task, ctx, act, req, env, hist>>

\* One iteration of the loop over the local mailbox.
PollUnsyncBody ==
    /\ pc = "unsync"
    /\ IF ~CtxIsAlive(ctx)
       THEN /\ pc' = "outer"
            /\ UNCHANGED <<not_ready, unsync_msgs, sync_msgs, addr, handled,
                           cur, running>>
       ELSE IF CtxWaiting(ctx)
       THEN /\ pc' = "parked"
            /\ not_ready' = TRUE
            /\ UNCHANGED <<unsync_msgs, sync_msgs, addr, handled, cur,
                           running>>
       ELSE IF unsync_msgs.q = <<>>
       THEN /\ pc' = "sync"
            /\ UNCHANGED <<not_ready, unsync_msgs, sync_msgs, addr, handled,
                           cur, running>>
       ELSE LET msg == Head(unsync_msgs.q)
            IN  /\ not_ready' = FALSE
                /\ unsync_msgs' = [unsync_msgs EXCEPT !.q = Tail(@)]
                /\ IF msg.kind = "Upgrade"
                   THEN /\ sync_msgs' = remote_address
                        /\ addr' = [addr EXCEPT ![msg.id[1]] =
                                      Handed(@, sync_msgs.gen)]
                        /\ UNCHANGED <<pc, handled, cur, running>>
                   ELSE /\ HandlerEnter(msg, "h_unsync")
                        /\ UNCHANGED <<sync_msgs, addr>>
    /\ UNCHANGED <<mode, task, ctx, act, req, env>>

PollUnsync == PollUnsyncBody /\ UNCHANGED hist

\* The same step, counting the envelopes dispatched in the cycle.
PollUnsyncCounted ==
    /\ PollUnsyncBody
    /\ hist' = [hist EXCEPT !.cycle = IF Len(handled') > Len(handled)
                                      THEN @ + 1 ELSE @]

\* if not_ready { return NotReady } at the end of 'outer
AfterLoops == IF not_ready THEN "parked" ELSE "outer"

\* One iteration of the loop over the sync mailbox; when the loop is left
\* (or there is no sync mailbox) the end of 'outer follows at once.
PollSyncBody ==
    /\ pc = "sync"
    /\ IF ~sync_msgs.some
       THEN /\ pc' = AfterLoops
            /\ not_ready' = TRUE
            /\ UNCHANGED <<sync_msgs, handled, cur, running>>
       ELSE IF ~CtxIsAlive(ctx)
       THEN /\ pc' = "outer"
            /\ UNCHANGED <<not_ready, sync_msgs, handled, cur, running>>
       ELSE IF CtxWaiting(ctx)
       THEN /\ pc' = "parked"
            /\ not_ready' = TRUE
            /\ UNCHANGED <<sync_msgs, handled, cur, running>>
       ELSE IF sync_msgs.q = <<>>
       THEN /\ pc' = AfterLoops
            /\ not_ready' = TRUE
            /\ UNCHANGED <<sync_msgs, handled, cur, running>>
       ELSE /\ not_ready' = FALSE
            /\ sync_msgs' = [sync_msgs EXCEPT !.q = Tail(@)]
            /\ HandlerEnter(Head(sync_msgs.q), "h_sync")
    /\ UNCHANGED <<mode, task, ctx, act, unsync_msgs, addr, req, env>>

\* The loop over the sync mailbox as it would be without the check of
\* ctx.is_alive().
PollSync_noalive ==
    /\ pc = "sync"
    /\ IF ~sync_msgs.some
       THEN /\ pc' = AfterLoops
            /\ not_ready' = TRUE
            /\ UNCHANGED <<sync_msgs, handled, cur, running>>
       ELSE IF CtxWaiting(ctx)
       THEN /\ pc' = "parked"
            /\ not_ready' = TRUE
            /\ UNCHANGED <<sync_msgs, handled, cur, running>>
       ELSE IF sync_msgs.q = <<>>
       THEN /\ pc' = AfterLoops
            /\ not_ready' = TRUE
            /\ UNCHANGED <<sync_msgs, handled, cur, running>>
       ELSE /\ not_ready' = FALSE
            /\ sync_msgs' = [sync_msgs EXCEPT !.q = Tail(@)]
            /\ HandlerEnter(Head(sync_msgs.q), "h_sync")
    /\ UNCHANGED <<mode, task, ctx, act, unsync_msgs, addr, req, env, hist>>

PollSync == PollSyncBody /\ UNCHANGED hist

\* The same step, counting the envelopes dispatched in the cycle.
PollSyncCounted ==
    /\ PollSyncBody
    /\ hist' = [hist EXCEPT !.cycle = IF Len(handled') > Len(handled)
                                      THEN @ + 1 ELSE @]

\* What the handler of envelope e does to the context: Die calls
\* ctx.stop(), Panic poisons the context, Fut returns a response future that
\* the context polls, Wait calls ctx.wait(f).
HandlerCtx(c, e) ==
    CASE e.kind = "Die" -> CtxStop(c)
      [] e.kind = "Panic" -> [c EXCEPT !.poisoned = TRUE]
      [] e.kind = "Fut" -> [c EXCEPT !.items = @ \cup {e.id}]
      [] e.kind = "Wait" -> [c EXCEPT !.wait = "pending"]
      [] OTHER -> c

\* What it does to the actor value.
HandlerAct(a, e) ==
    IF e.kind = "Panic" THEN a ELSE [a EXCEPT !.count = @ + 1]

\* Envelope::handle routes the response: an immediate value is sent on the
\* reply channel, a future replies when it completes, a panic drops it.
HandlerReq(r, e) ==
    CASE e.kind = "Panic" -> ReplyDropped(r, {e.id})
      [] e.kind = "Fut" -> r
      [] OTHER -> ReplySent(r, {e.id})

\* The handler of the current envelope runs to its end and the envelope
\* routes the response.
HandlerReturn ==
    /\ pc \in {"h_unsync", "h_sync"}
    /\ pc' = IF pc = "h_unsync" THEN "unsync" ELSE "sync"
    /\ running' = running - 1
    /\ cur' = NoMsg
    /\ act' = HandlerAct(act, cur)
    /\ ctx' = HandlerCtx(ctx, cur)
    /\ req' = HandlerReq(req, cur)
    /\ hist' = IF cur.kind = "Panic" THEN [hist EXCEPT !.lost = @ \cup {cur.id}]
               ELSE hist
    /\ UNCHANGED <<mode, task, not_ready, unsync_msgs, sync_msgs, addr, env,
                   handled>>

\* How often an actor that answers Again sends the message on to the
\* address of its own supervisor.
MaxResends == 3

\* The handler of Again returns: it has sent Again once more on a local
\* address of its supervisor (do_send: no Request), unless the actor has
\* counted MaxResends messages or the address is gone.
HandlerResend ==
    /\ pc \in {"h_unsync", "h_sync"}
    /\ cur.kind = "Again"
    /\ pc' = IF pc = "h_unsync" THEN "unsync" ELSE "sync"
    /\ running' = running - 1
    /\ cur' = NoMsg
    /\ act' = HandlerAct(act, cur)
    /\ req' = HandlerReq(req, cur)
    /\ unsync_msgs' =
          IF act.count < MaxResends /\ UnsyncSenders # {}
          THEN [unsync_msgs EXCEPT !.q =
                  Append(@, [id |-> <<"self", act.count + 1>>,
                             kind |-> "Again"])]
          ELSE unsync_msgs
    /\ UNCHANGED <<mode, task, not_ready, ctx, sync_msgs, addr, env, handled,
                   hist>>

(***************************************************************************)
(* Senders.  A local sender lives on the arbiter thread and runs only      *)
(* while the supervisor task is parked; a sync sender runs at any time.    *)
(***************************************************************************)
CanRun(s) == s \in SyncSenders \/ pc = "parked"

\* The outcome of the channel's send: "Ok", "Full" or "Closed".
TxSend(alive, q, cap) ==
    IF ~alive THEN "Closed"
    ELSE IF cap # 0 /\ Len(q) >= cap THEN "Full"
    ELSE "Ok"

\* send for Syn as it would be if a closed mailbox were not told apart
\* from an accepted message.
SynSend_noclosed(r) ==
    CASE r = "Ok" -> "queued"
      [] r = "Full" -> "held"
      [] r = "Closed" -> "queued"

\* send for Syn as it would be if a message that finds the mailbox full
\* were dropped instead of being kept in the Request.
SynSend_dropfull(r) ==
    CASE r = "Ok" -> "queued"
      [] r = "Full" -> "dead"
      [] r = "Closed" -> "dead"

\* send for Syn as it would be if the Request also kept a message that the
\* mailbox has accepted.
SynSend_okheld(r) ==
    CASE r = "Ok" -> "held"
      [] r = "Full" -> "held"
      [] r = "Closed" -> "dead"

\* MessageDestination::send for Syn: the Request built from the outcome.
\* "queued": Request::new(Some(rx), None); "held": Request::new(None,
\* Some((tx.clone(), msg))); "dead": Request::new(None, None).
SynSend(r) ==
    CASE r = "Ok" -> "queued"
      [] r = "Full" -> "held"
      [] r = "Closed" -> "dead"

\* The same for a local address.
UnsyncSend(r) ==
    CASE r = "Ok" -> "queued"
      [] r = "Full" -> "held"
      [] r = "Closed" -> "dead"

\* addr.send(msg) by sender s of a message that the handler treats as k.
Send(s, k) ==
    /\ addr[s].n > 0
    /\ CanRun(s)
    /\ hist.sent < MaxMsgs
    /\ LET id == <<s, SentBy(s) + 1>>
           e == [id |-> id, kind |-> k]
       IN  IF s \in SyncSenders
           THEN LET r == TxSend(SyncRxAlive(addr[s].gen), sync_msgs.q,
                                Capacity)
                IN  /\ req' = [req EXCEPT ![id] = SynSend(r)]
                    /\ env' = [env EXCEPT ![id] = IF r = "Full" THEN k ELSE @]
                    /\ sync_msgs' = IF r = "Ok"
                                    THEN [sync_msgs EXCEPT !.q = Append(@, e)]
                                    ELSE sync_msgs
                    /\ UNCHANGED unsync_msgs
           ELSE LET r == TxSend(UnsyncRxAlive(addr[s].gen), unsync_msgs.q,
                                Capacity)
                IN  /\ req' = [req EXCEPT ![id] = UnsyncSend(r)]
                    /\ env' = [env EXCEPT ![id] = IF r = "Full" THEN k ELSE @]
                    /\ unsync_msgs' = IF r = "Ok"
                                      THEN [unsync_msgs EXCEPT !.q = Append(@, e)]
                                      ELSE unsync_msgs
                    /\ UNCHANGED sync_msgs
    /\ hist' = [hist EXCEPT !.sent = @ + 1,
                            !.parked = IF req'[<<s, SentBy(s) + 1>>] = "held"
                                       THEN @ \cup {<<s, SentBy(s) + 1>>}
                                       ELSE @,
                            !.enq[s] = IF req'[<<s, SentBy(s) + 1>>] = "queued"
                                       THEN Append(@, <<s, SentBy(s) + 1>>)
                                       ELSE @]
    /\ UNCHANGED <<mode, task, pc, not_ready, ctx, act, addr, handled, cur,
                   running>>

\* The outcome of the channel's do_send, which does not look at the
\* capacity: "Ok" or "Closed".
TxDoSend(alive) == IF alive THEN "Ok" ELSE "Closed"

\* try_send for Syn as it would be if it enqueued like do_send.
SynTrySend_nofull(alive, q, cap) == TxDoSend(alive)

\* MessageDestination::try_send for Syn: tx.try_send(msg, false), the
\* channel's outcome is the result.
SynTrySend(alive, q, cap) == TxSend(alive, q, cap)

\* do_send for Syn as it would be if it respected the capacity.
SynDoSend_bounded(alive, q, cap) == TxSend(alive, q, cap)

\* MessageDestination::do_send for Syn: let _ = tx.do_send(msg).
SynDoSend(alive, q, cap) == TxDoSend(alive)

\* addr.try_send(msg) by the sync sender s.  The result is kept in req:
\* "t_ok", or "t_full" / "t_closed" with the message handed back in env.
TrySend(s, k) ==
    /\ s \in SyncSenders
    /\ addr[s].n > 0
    /\ hist.sent < MaxMsgs
    /\ LET id == <<s, SentBy(s) + 1>>
           r == SynTrySend(SyncRxAlive(addr[s].gen), sync_msgs.q, Capacity)
       IN  /\ req' = [req EXCEPT ![id] = CASE r = "Ok" -> "t_ok"
                                           [] r = "Full" -> "t_full"
                                           [] r = "Closed" -> "t_closed"]
           /\ env' = [env EXCEPT ![id] = IF r = "Ok" THEN @ ELSE k]
           /\ sync_msgs' = IF r = "Ok"
                           THEN [sync_msgs EXCEPT
                                    !.q = Append(@, [id |-> id, kind |-> k])]
                           ELSE sync_msgs
           /\ hist' = [hist EXCEPT !.sent = @ + 1,
                                   !.given[id] = k,
                                   !.enq[s] = IF r = "Ok" THEN Append(@, id)
                                              ELSE @]
    /\ UNCHANGED <<mode, task, pc, not_ready, ctx, act, unsync_msgs, addr,
                   handled, cur, running>>

\* addr.do_send(msg) by the sync sender s.  The result of the channel is
\* dropped by the address; req keeps it for the record: "d_ok", "d_closed".
DoSend(s, k) ==
    /\ s \in SyncSenders
    /\ addr[s].n > 0
    /\ hist.sent < MaxMsgs
    /\ LET id == <<s, SentBy(s) + 1>>
           r == SynDoSend(SyncRxAlive(addr[s].gen), sync_msgs.q, Capacity)
       IN  /\ req' = [req EXCEPT ![id] = CASE r = "Ok" -> "d_ok"
                                           [] r = "Full" -> "d_full"
                                           [] r = "Closed" -> "d_closed"]
           /\ sync_msgs' = IF r = "Ok"
                           THEN [sync_msgs EXCEPT
                                    !.q = Append(@, [id |-> id, kind |-> k])]
                           ELSE sync_msgs
           /\ hist' = [hist EXCEPT !.sent = @ + 1,
                                   !.given[id] = k,
                                   !.enq[s] = IF r = "Ok" THEN Append(@, id)
                                              ELSE @]
    /\ UNCHANGED <<mode, task, pc, not_ready, ctx, act, unsync_msgs, addr,
                   env, handled, cur, running>>

\* MessageRecipient::do_send for Syn: tx.do_send(msg), and the result of
\* the channel is the result of the call.
RecipientDoSendResult(alive) == TxDoSend(alive)

\* recipient.do_send(msg) by the sync sender s, through a Recipient made
\* from one of its addresses (a Recipient holds the same sender).  The
\* result is kept in req: "r_ok" or "r_closed".
RecipientDoSend(s, k) ==
    /\ s \in SyncSenders
    /\ addr[s].n > 0
    /\ hist.sent < MaxMsgs
    /\ LET id == <<s, SentBy(s) + 1>>
           r == RecipientDoSendResult(SyncRxAlive(addr[s].gen))
       IN  /\ req' = [req EXCEPT ![id] = IF r = "Ok" THEN "r_ok"
                                                    ELSE "r_closed"]
           /\ sync_msgs' = IF r = "Ok"
                           THEN [sync_msgs EXCEPT
                                    !.q = Append(@, [id |-> id, kind |-> k])]
                           ELSE sync_msgs
           /\ hist' = [hist EXCEPT !.sent = @ + 1,
                                   !.given[id] = k,
                                   !.enq[s] = IF r = "Ok" THEN Append(@, id)
                                              ELSE @]
    /\ UNCHANGED <<mode, task, pc, not_ready, ctx, act, unsync_msgs, addr,
                   env, handled, cur, running>>

\* What the caller of the operation for message i was given back: the
\* result of try_send, the result of do_send on a Recipient, nothing from
\* do_send on an Address (which drops the result of the channel), and a
\* Request from send.
Returned(i) ==
    CASE req[i] = "t_ok" -> "Ok"
      [] req[i] = "t_full" -> "Full"
      [] req[i] = "t_closed" -> "Closed"
      [] req[i] = "r_ok" -> "Ok"
      [] req[i] = "r_closed" -> "Closed"
      [] req[i] \in {"d_ok", "d_full", "d_closed"} -> "Unit"
      [] OTHER -> "Request"

\* Request::poll for a Request without a reply receiver: one built on a
\* closed mailbox resolves with Closed; one that still holds its message
\* sends it again with the sender clone it keeps.
RequestPoll(i) ==
    /\ req[i] \in {"dead", "held"}
    /\ CanRun(i[1])
    /\ IF req[i] = "dead"
       THEN /\ req' = [req EXCEPT ![i] = "closed"]
            /\ UNCHANGED <<sync_msgs, env, hist>>
       ELSE LET r == TxSend(SyncRxAlive(sync_msgs.gen), sync_msgs.q, Capacity)
            IN  /\ r # "Full"
                /\ req' = [req EXCEPT ![i] = IF r = "Ok" THEN "queued"
                                                         ELSE "closed"]
                /\ env' = [env EXCEPT ![i] = "None"]
                /\ sync_msgs' = IF r = "Ok"
                                THEN [sync_msgs EXCEPT !.q =
                                        Append(@, [id |-> i, kind |-> env[i]])]
                                ELSE sync_msgs
                /\ hist' = [hist EXCEPT !.enq[i[1]] =
                               IF r = "Ok" THEN Append(@, i) ELSE @]
    /\ UNCHANGED <<mode, task, pc, not_ready, ctx, act, unsync_msgs, addr,
                   handled, cur, running>>

\* drop(request): the Request of message i is dropped before it resolved.
\* A Request owns either the reply receiver (the envelope is in the
\* mailbox) or the message and a sender clone (the mailbox was full); what
\* it owns goes away with it.  "discarded": the reply receiver is gone;
\* "cancelled": the message is gone.
DropRequest(i) ==
    /\ req[i] \in {"queued", "held", "dead"}
    /\ CanRun(i[1])
    /\ req' = [req EXCEPT ![i] = IF @ = "queued" THEN "discarded"
                                              ELSE "cancelled"]
    /\ env' = [env EXCEPT ![i] = "None"]
    /\ UNCHANGED <<mode, task, pc, not_ready, ctx, act, unsync_msgs,
                   sync_msgs, addr, handled, cur, running, hist>>

\* drop(addr): one handle of s goes away.
DropAddr(s) ==
    /\ addr[s].n > 0
    /\ CanRun(s)
    /\ addr' = [addr EXCEPT ![s] = IF @.n = 1 THEN NoAddr
                                   ELSE [@ EXCEPT !.n = @ - 1]]
    /\ UNCHANGED <<mode, task, pc, not_ready, ctx, act, unsync_msgs, sync_msgs,
                   req, env, handled, cur, running, hist>>

\* addr.clone(): s holds one more handle to the same mailbox.
CloneAddr(s) ==
    /\ addr[s].n > 0
    /\ addr[s].n < MaxHandles
    /\ CanRun(s)
    /\ addr' = [addr EXCEPT ![s].n = @ + 1]
    /\ UNCHANGED <<mode, task, pc, not_ready, ctx, act, unsync_msgs, sync_msgs,
                   req, env, handled, cur, running, hist>>

\* A local address asks for a sync address (LocalAddrProtocol::Upgrade);
\* the answer is handed to the sync sender t, which holds none so far.
RequestUpgrade(s, t) ==
    /\ s \in LocalSenders
    /\ t \in SyncSenders
    /\ addr[s].n > 0
    /\ CanRun(s)
    /\ UnsyncRxAlive(addr[s].gen)
    /\ addr[t].n = 0
    /\ \A k \in DOMAIN unsync_msgs.q : unsync_msgs.q[k].kind # "Upgrade"
    /\ unsync_msgs' = [unsync_msgs EXCEPT
                          !.q = Append(@, [id |-> <<t, 0>>, kind |-> "Upgrade"])]
    /\ UNCHANGED <<mode, task, pc, not_ready, ctx, act, sync_msgs, addr, req,
                   env, handled, cur, running, hist>>

\* The future given to ctx.wait completes.
WaitReady ==
    /\ task = "running"
    /\ ctx.wait = "pending"
    /\ ctx' = [ctx EXCEPT !.wait = "ready"]
    /\ UNCHANGED <<mode, task, pc, not_ready, act, unsync_msgs, sync_msgs,
                   addr, req, env, handled, cur, running, hist>>

\* The response future of message i completes.
FutureReady(i) ==
    /\ task = "running"
    /\ i \in ctx.items \ ctx.ready
    /\ ctx' = [ctx EXCEPT !.ready = @ \cup {i}]
    /\ UNCHANGED <<mode, task, pc, not_ready, act, unsync_msgs, sync_msgs,
                   addr, req, env, handled, cur, running, hist>>

(***************************************************************************)
(* An unsupervised actor: the Context owns the (bounded) sync mailbox and  *)
(* is itself the task that the arbiter polls.                              *)
(***************************************************************************)
\* Actor::start, returning a sync address.
start_actor ==
    /\ mode = "none"
    /\ mode' = "plain"
    /\ ctx' = NewContext
    /\ act' = Factory(act)
    /\ task' = "running"
    /\ sync_msgs' = [sync_msgs EXCEPT !.some = TRUE]
    /\ addr' = [addr EXCEPT !["s1"] = [n |-> 1, gen |-> sync_msgs.gen]]
    /\ UNCHANGED <<pc, not_ready, unsync_msgs, req, env, handled, cur,
                   running, hist>>

\* No sender and no sub-future is left.
ContextIdle ==
    /\ SyncSendersAlive = {}
    /\ SyncParked = {}
    /\ ctx.items = {}
    /\ ctx.wait = "none"
    /\ sync_msgs.q = <<>>

\* The Context takes one envelope from its mailbox and dispatches it.
ContextDispatch ==
    /\ mode = "plain"
    /\ task = "running"
    /\ ctx.state \in {"RUNNING", "STOPPING"}
    /\ ~ctx.poisoned
    /\ ~ctx.stopReq
    /\ ~CtxWaiting(ctx)
    /\ sync_msgs.q # <<>>
    /\ LET e == Head(sync_msgs.q)
       IN  /\ sync_msgs' = [sync_msgs EXCEPT !.q = Tail(@)]
           /\ handled' = Append(handled, e.id)
           /\ act' = HandlerAct(act, e)
           /\ ctx' = HandlerCtx(ctx, e)
           /\ req' = HandlerReq(req, e)
           /\ hist' = IF e.kind = "Panic"
                      THEN [hist EXCEPT !.lost = @ \cup {e.id}] ELSE hist
    /\ UNCHANGED <<mode, task, pc, not_ready, unsync_msgs, addr, env, cur,
                   running>>

\* The rest of a poll cycle of the Context: hooks, sub-futures, wait marker
\* and the termination check.  When the Context ends its mailbox receiver
\* is dropped with everything queued in it.
ContextPoll ==
    /\ mode = "plain"
    /\ task = "running"
    /\ LET c == IF ContextIdle THEN CtxStop(ctx) ELSE ctx
       IN  /\ ctx' = CtxPollCtx(c, act)
           /\ act' = CtxPollAct(c, act)
           /\ IF CtxPollResult(c, act) = "NotReady"
              THEN /\ req' = ReplySent(req, CtxPollDone(c))
                   /\ UNCHANGED <<task, sync_msgs>>
              ELSE /\ task' = "done"
                   /\ req' = ReplyDropped(ReplySent(req, CtxPollDone(c)),
                                          c.items \cup EnvIds(sync_msgs.q))
                   /\ sync_msgs' = [sync_msgs EXCEPT !.q = <<>>]
    /\ UNCHANGED <<mode, pc, not_ready, unsync_msgs, addr, env, handled, cur,
                   running, hist>>

SupervisorStep ==
    \/ PollOuter
    \/ PollCtx
    \/ PollEnded
    \/ PollUnsync
    \/ PollSync
    \/ HandlerReturn

Next ==
    \/ start
    \/ start_in
    \/ Execute
    \/ start_actor
    \/ ContextDispatch
    \/ ContextPoll
    \/ SupervisorStep
    \/ \E s \in Senders, k \in Kinds : Send(s, k)
    \/ \E i \in MsgIds : RequestPoll(i)
    \/ \E s \in Senders : DropAddr(s)
    \/ \E s \in Senders : CloneAddr(s)
    \/ \E s, t \in Senders : RequestUpgrade(s, t)
    \/ WaitReady
    \/ \E i \in MsgIds : FutureReady(i)

Spec == Init /\ [][Next]_vars

\* The arbiter keeps polling its tasks, the futures handed to the context
\* complete, and the owner of a Request keeps polling it.  Senders are
\* free to stop sending at any time.
Fairness ==
    /\ WF_vars(Execute)
    /\ WF_vars(SupervisorStep)
    /\ WF_vars(ContextDispatch)
    /\ WF_vars(ContextPoll)
    /\ WF_vars(WaitReady)
    /\ WF_vars(\E i \in MsgIds : FutureReady(i))
    /\ WF_vars(\E i \in MsgIds : RequestPoll(i))

FairSpec == Spec /\ Fairness

\* The unsupervised actor and its bounded mailbox under all three send
\* operations of an address: send, try_send and do_send.
MailboxNext ==
    \/ start_actor
    \/ ContextDispatch
    \/ ContextPoll
    \/ \E s \in Senders, k \in Kinds : Send(s, k)
    \/ \E s \in Senders, k \in Kinds : TrySend(s, k)
    \/ \E s \in Senders, k \in Kinds : DoSend(s, k)
    \/ \E i \in MsgIds : RequestPoll(i)
    \/ \E s \in Senders : DropAddr(s)
    \/ \E s \in Senders : CloneAddr(s)
    \/ WaitReady
    \/ \E i \in MsgIds : FutureReady(i)

MailboxSpec == Init /\ [][MailboxNext]_vars

\* The unsupervised actor and its bounded mailbox with senders that may
\* drop the Requests they were given.
CancelNext ==
    \/ start_actor
    \/ ContextDispatch
    \/ ContextPoll
    \/ \E s \in Senders, k \in Kinds : Send(s, k)
    \/ \E i \in MsgIds : RequestPoll(i)
    \/ \E i \in MsgIds : DropRequest(i)
    \/ \E s \in Senders : DropAddr(s)
    \/ WaitReady
    \/ \E i \in MsgIds : FutureReady(i)

\* The arbiter keeps polling the Context and the futures handed to it
\* complete; nobody is bound to keep or to poll a Request.
CancelSpec ==
    /\ Init /\ [][CancelNext]_vars
    /\ WF_vars(ContextDispatch)
    /\ WF_vars(ContextPoll)
    /\ WF_vars(WaitReady)
    /\ WF_vars(\E i \in MsgIds : FutureReady(i))

(***************************************************************************)
(* SumActor of tests/derive_one.rs: an unsupervised actor that answers a   *)
(* Sum message with the sum of its two fields.  Here the envelopes carry   *)
(* the message value and the reply channels carry the result.              *)
(***************************************************************************)
\* The values the fields of a Sum message are drawn from.
SumArgs == {5, 10}

\* Sum(usize, usize)
Sum == SumArgs \X SumArgs

\* handle as it would be if it answered with the first field.
handle_first(message) == message[1]

\* Handler<Sum> for SumActor: Ok(message.0 + message.1)
handle(message) == message[1] + message[2]

\* The send of a message that carries a value, with the three outcomes of
\* send for Syn.
SendMessage(s, message) ==
    /\ s \in SyncSenders
    /\ addr[s].n > 0
    /\ hist.sent < MaxMsgs
    /\ LET id == <<s, SentBy(s) + 1>>
           r == TxSend(SyncRxAlive(addr[s].gen), sync_msgs.q, Capacity)
       IN  /\ req' = [req EXCEPT ![id] = SynSend(r)]
           /\ env' = [env EXCEPT ![id] = IF r = "Full" THEN message ELSE @]
           /\ sync_msgs' = IF r = "Ok"
                           THEN [sync_msgs EXCEPT !.q =
                                   Append(@, [id |-> id, kind |-> "Val",
                                              msg |-> message])]
                           ELSE sync_msgs
           /\ hist' = [hist EXCEPT !.sent = @ + 1,
                                   !.given[id] = message,
                                   !.parked = IF r = "Full" THEN @ \cup {id}
                                              ELSE @,
                                   !.enq[s] = IF r = "Ok" THEN Append(@, id)
                                              ELSE @]
    /\ UNCHANGED <<mode, task, pc, not_ready, ctx, act, unsync_msgs, addr,
                   handled, cur, running>>

\* addr.call_fut(Sum(a, b))
call_fut(s, message) == message \in Sum /\ SendMessage(s, message)

\* Request::poll of a Request that holds such a message: it sends the
\* message again with the sender clone it keeps.
RequestResend(i) ==
    /\ req[i] = "held"
    /\ LET r == TxSend(SyncRxAlive(sync_msgs.gen), sync_msgs.q, Capacity)
       IN  /\ r # "Full"
           /\ req' = [req EXCEPT ![i] = IF r = "Ok" THEN "queued"
                                                    ELSE "closed"]
           /\ env' = [env EXCEPT ![i] = "None"]
           /\ sync_msgs' = IF r = "Ok"
                           THEN [sync_msgs EXCEPT !.q =
                                   Append(@, [id |-> i, kind |-> "Val",
                                              msg |-> env[i]])]
                           ELSE sync_msgs
           /\ hist' = [hist EXCEPT !.enq[i[1]] =
                          IF r = "Ok" THEN Append(@, i) ELSE @]
    /\ UNCHANGED <<mode, task, pc, not_ready, ctx, act, unsync_msgs, addr,
                   handled, cur, running>>

\* The Context takes one Sum envelope from its mailbox; the envelope calls
\* the handler with its message and sends the result on its reply channel,
\* where the Request of that message receives it.
SumDispatch ==
    /\ mode = "plain"
    /\ task = "running"
    /\ ctx.state \in {"RUNNING", "STOPPING"}
    /\ ~ctx.stopReq
    /\ sync_msgs.q # <<>>
    /\ LET e == Head(sync_msgs.q)
       IN  /\ sync_msgs' = [sync_msgs EXCEPT !.q = Tail(@)]
           /\ handled' = Append(handled, e.id)
           /\ act' = HandlerAct(act, e)
           /\ req' = HandlerReq(req, e)
           /\ hist' = [hist EXCEPT !.reply[e.id] =
                          IF req[e.id] = "queued" THEN handle(e.msg) ELSE @]
    /\ UNCHANGED <<mode, task, pc, not_ready, ctx, unsync_msgs, addr, env,
                   cur, running>>

\* response_derive_one, with any number of Sum messages and senders that
\* may drop their addresses.
SumNext ==
    \/ start_actor
    \/ SumDispatch
    \/ ContextPoll
    \/ \E s \in Senders, message \in Sum : call_fut(s, message)
    \/ \E i \in MsgIds : RequestResend(i)
    \/ \E s \in Senders : DropAddr(s)
    \/ \E s \in Senders : CloneAddr(s)

SumSpec == Init /\ [][SumNext]_vars

\* The supervisor is a task of the arbiter's event loop.  poll is called
\* when the task is spawned and after that only when the task has been
\* notified; a future notifies the task that polled it last and got
\* NotReady.  hist.quiet: no notification is pending.  hist.regs: who
\* holds the task to notify: the wait future f (polled by ctx.poll), the
\* local and the sync receiver (polled on an empty queue with a sender
\* alive, and remembering how many envelopes had been enqueued then).
Enqueued(S) ==
    Cardinality({i \in MsgIds : i[1] \in S /\ i \in Range(hist.enq[i[1]])})

\* poll is entered from the parked task only on a notification, which the
\* call uses up.
PollOuterNotified ==
    /\ pc = "parked" => ~hist.quiet
    /\ PollOuterBody
    /\ hist' = [hist EXCEPT !.quiet = IF pc = "parked" THEN TRUE ELSE @]

\* ctx.poll() polls the wait future: a pending f holds the task from now
\* on, a completed f or an ended context does not.
PollCtxNotified ==
    /\ PollCtxBody
    /\ hist' = [hist EXCEPT !.regs.wait =
                   /\ CtxPollResult(ctx, act) = "NotReady"
                   /\ ctx'.wait = "pending"]

\* unsync_msgs.poll() on an empty queue parks the task in the channel.
PollUnsyncNotified ==
    /\ PollUnsyncBody
    /\ hist' = [hist EXCEPT !.regs.unsync =
                   IF pc' = "sync" /\ UnsyncSenders # {}
                   THEN Enqueued(LocalSenders) + 1 ELSE @]

\* msgs.poll() on an empty queue parks the task in the channel.
PollSyncNotified ==
    /\ PollSyncBody
    /\ hist' = [hist EXCEPT !.regs.sync =
                   IF /\ sync_msgs.some /\ CtxIsAlive(ctx) /\ ~CtxWaiting(ctx)
                      /\ sync_msgs.q = <<>> /\ SyncSendersAlive # {}
                   THEN Enqueued(SyncSenders) + 1 ELSE @]

\* The wait future became ready after ctx.poll() had polled it.
NotifyWait ==
    /\ hist.regs.wait
    /\ ctx.wait = "ready"
    /\ hist' = [hist EXCEPT !.quiet = FALSE, !.regs.wait = FALSE]

\* A sender enqueued an envelope or an upgrade request, or the last sender
\* was dropped, after the local receiver had parked the task.
NotifyUnsync ==
    /\ hist.regs.unsync > 0
    /\ \/ Enqueued(LocalSenders) + 1 > hist.regs.unsync
       \/ \E k \in DOMAIN unsync_msgs.q : unsync_msgs.q[k].kind = "Upgrade"
       \/ UnsyncSenders = {}
    /\ hist' = [hist EXCEPT !.quiet = FALSE, !.regs.unsync = 0]

\* The same for the sync receiver.
NotifySync ==
    /\ hist.regs.sync > 0
    /\ Enqueued(SyncSenders) + 1 > hist.regs.sync \/ SyncSendersAlive = {}
    /\ hist' = [hist EXCEPT !.quiet = FALSE, !.regs.sync = 0]

\* task.notify(): the event loop will poll the supervisor again.
Notify ==
    /\ task = "running"
    /\ NotifyWait \/ NotifyUnsync \/ NotifySync
    /\ UNCHANGED <<mode, task, pc, not_ready, ctx, act, unsync_msgs,
                   sync_msgs, addr, req, env, handled, cur, running>>

NotifiedStep ==
    \/ PollOuterNotified
    \/ PollCtxNotified
    \/ PollEnded
    \/ PollUnsyncNotified
    \/ PollSyncNotified
    \/ HandlerReturn

\* A supervised actor whose handlers may call ctx.wait(f), polled as the
\* event loop polls a task.
WakeNext ==
    \/ start
    \/ start_in
    \/ Execute
    \/ NotifiedStep
    \/ Notify
    \/ WaitReady
    \/ \E s \in Senders, k \in {"Val", "Wait"} : Send(s, k)
    \/ \E s \in Senders : DropAddr(s)
    \/ \E s, t \in Senders : RequestUpgrade(s, t)

WakeFairness ==
    /\ WF_vars(Execute)
    /\ WF_vars(NotifiedStep)
    /\ WF_vars(Notify)
    /\ WF_vars(WaitReady)

WakeSpec == Init /\ [][WakeNext]_vars /\ WakeFairness

\* A supervised actor whose handler of Again refills the local mailbox of
\* its supervisor, with the envelopes of each poll cycle counted.
RefillNext ==
    \/ start
    \/ PollOuterCounted
    \/ PollCtx
    \/ PollEnded
    \/ PollUnsyncCounted
    \/ PollSyncCounted
    \/ HandlerReturn /\ cur.kind # "Again"
    \/ HandlerResend
    \/ \E s \in Senders, k \in {"Val", "Again"} : Send(s, k)
    \/ \E s \in Senders : DropAddr(s)
    \/ \E s \in Senders : CloneAddr(s)
    \/ \E s, t \in Senders : RequestUpgrade(s, t)

RefillSpec == Init /\ [][RefillNext]_vars

\* The same with Recipients in use as well.
RecipientNext ==
    \/ MailboxNext
    \/ \E s \in Senders, k \in Kinds : RecipientDoSend(s, k)

RecipientSpec == Init /\ [][RecipientNext]_vars

(***************************************************************************)
(* The Connector actor of actors/resolver.rs and its Resolver future.  A   *)
(* name is a string, modelled as a sequence of tokens: a host label, an IP *)
(* literal, a string of digits, or the character ':'.                      *)
(***************************************************************************)
MaxNameLen == 3

HostLabels == {"localhost"}
IpLits == {"127.0.0.1"}
DigitStrs == {"5000"}
Tokens == HostLabels \cup IpLits \cup DigitStrs \cup {":"}

Names == UNION {[1 .. n -> Tokens] : n \in 1 .. MaxNameLen}

\* Option<T>
None == [some |-> FALSE, v |-> 0]
Some(x) == [some |-> TRUE, v |-> x]
unwrap_or(o, d) == IF o.some THEN o.v ELSE d

\* Resolve::host and Resolve::host_and_port
Resolve_host(host) == [name |-> host, port |-> None]
Resolve_host_and_port(host, port) == [name |-> host, port |-> Some(port)]

\* The Resolve messages that are sent.
ResolvePorts == {80}
ResolveMsgs ==
    {Resolve_host(h) : h \in Names}
        \cup {Resolve_host_and_port(h, p) : h \in Names, p \in ResolvePorts}

\* str::parse::<u16>() of a string: only a string of digits is a number.
ParseU16(str) ==
    IF Len(str) = 1 /\ str[1] \in DigitStrs THEN Some(5000) ELSE None

\* str::parse::<SocketAddr>(): an IP literal, ':' and a port number.
ParseSocketAddr(str) ==
    IF /\ Len(str) = 3
       /\ str[1] \in IpLits
       /\ str[2] = ":"
       /\ ParseU16(<<str[3]>>).some
    THEN Some([ip |-> str[1], port |-> ParseU16(<<str[3]>>).v])
    ELSE None

\* str::rsplitn(2, ':'): the part after the last ':' first, then the part
\* before it; a string without ':' is a single part.
rsplitn2(str) ==
    IF \E k \in DOMAIN str : str[k] = ":"
    THEN LET k == CHOOSE j \in DOMAIN str :
                     /\ str[j] = ":"
                     /\ \A l \in (j + 1) .. Len(str) : str[l] # ":"
         IN  <<SubSeq(str, k + 1, Len(str)), SubSeq(str, 1, k - 1)>>
    ELSE <<str>>

\* Resolver::parse
Resolver_parse(name, port) ==
    LET parts == rsplitn2(name)
    IN  IF Len(parts) < 2
        THEN [ok |-> FALSE, host |-> <<>>, port |-> port,
              err |-> "InvalidInput"]
        ELSE [ok |-> TRUE, host |-> parts[2],
              port |-> unwrap_or(ParseU16(parts[1]), port), err |-> "none"]

\* Resolver::new
Resolver_new(name, port) ==
    IF ParseSocketAddr(name).some
    THEN [lookup |-> None, port |-> port,
          addrs |-> Some(<<ParseSocketAddr(name).v>>), error |-> None]
    ELSE LET r == Resolver_parse(name, port)
         IN  IF r.ok
             THEN [lookup |-> Some(r.host), port |-> r.port,
                   addrs |-> None, error |-> None]
             ELSE [lookup |-> None, port |-> port,
                   addrs |-> None, error |-> Some(r.err)]

\* What a poll of the LookupIpFuture may give: NotReady, a list of IP
\* addresses (which may be empty), or an error of the DNS resolver.
LookupOutcomes ==
    {[tag |-> "NotReady", ips |-> <<>>],
     [tag |-> "Err", ips |-> <<>>],
     [tag |-> "Ready", ips |-> <<>>],
     [tag |-> "Ready", ips |-> <<"127.0.0.1">>],
     [tag |-> "Ready", ips |-> <<"127.0.0.1", "::1">>]}

\* ActorFuture::poll for Resolver, given what the lookup yields if it is
\* polled: "NotReady", Ok(addrs), or Err of the kind in tag.
Resolver_poll(r, dns) ==
    IF r.error.some THEN [tag |-> r.error.v, addrs |-> <<>>]
    ELSE IF r.addrs.some THEN [tag |-> "Ok", addrs |-> r.addrs.v]
    ELSE CASE dns.tag = "NotReady" -> [tag |-> "NotReady", addrs |-> <<>>]
           [] dns.tag = "Err" -> [tag |-> "Resolver", addrs |-> <<>>]
           [] dns.tag = "Ready" ->
                LET addrs == [k \in DOMAIN dns.ips |->
                                 [ip |-> dns.ips[k], port |-> r.port]]
                IN  IF addrs = <<>>
                    THEN [tag |-> "Resolver", addrs |-> <<>>]
                    ELSE [tag |-> "Ok", addrs |-> addrs]

\* The number of Resolve messages that are sent.
MaxResolves == 1

\* resolver.call_fut(Resolve::host(..))
resolve_call(s, message) ==
    /\ message \in ResolveMsgs
    /\ hist.sent < MaxResolves
    /\ SendMessage(s, message)

\* Handler<Resolve> for Connector: the handler returns the Resolver future
\* built from the message, which the context keeps and polls.
ConnectorDispatch ==
    /\ mode = "plain"
    /\ task = "running"
    /\ sync_msgs.q # <<>>
    /\ LET e == Head(sync_msgs.q)
       IN  /\ sync_msgs' = [sync_msgs EXCEPT !.q = Tail(@)]
           /\ handled' = Append(handled, e.id)
           /\ act' = HandlerAct(act, e)
           /\ ctx' = [ctx EXCEPT !.items = @ \cup
                        {[id |-> e.id,
                          fut |-> Resolver_new(e.msg.name,
                                               unwrap_or(e.msg.port, 0))]}]
    /\ UNCHANGED <<mode, task, pc, not_ready, unsync_msgs, addr, req, env,
                   cur, running, hist>>

\* The context polls a Resolver future; when it is ready its result is
\* sent as the reply of the Resolve message.
ResolverPoll(it, dns) ==
    /\ mode = "plain"
    /\ task = "running"
    /\ it \in ctx.items
    /\ LET res == Resolver_poll(it.fut, dns)
       IN  /\ res.tag # "NotReady"
           /\ ctx' = [ctx EXCEPT !.items = @ \ {it}]
           /\ req' = ReplySent(req, {it.id})
           /\ hist' = [hist EXCEPT !.reply[it.id] =
                          IF req[it.id] = "queued" THEN res ELSE @]
    /\ UNCHANGED <<mode, task, pc, not_ready, act, unsync_msgs, sync_msgs,
                   addr, env, handled, cur, running>>

\* test_resolver: Resolve messages to a Connector.
ResolverNext ==
    \/ start_actor
    \/ \E s \in Senders, message \in ResolveMsgs : resolve_call(s, message)
    \/ ConnectorDispatch
    \/ \E it \in ctx.items, dns \in LookupOutcomes : ResolverPoll(it, dns)

ResolverSpec == Init /\ [][ResolverNext]_vars

(***************************************************************************)
(* Properties                                                              *)
(***************************************************************************)
\* The messages of sender s among those of sequence q, in the order of q.
OfSender(q, s) == SelectSeq(q, LAMBDA i : i[1] = s)

\* The position of x in the sequence q (0 when it is not in q).
PosIn(q, x) ==
    IF \E k \in DOMAIN q : q[k] = x
    THEN CHOOSE k \in DOMAIN q : q[k] = x /\ \A j \in 1 .. (k - 1) : q[j] # x
    ELSE 0

\* a is a subsequence of b.
RECURSIVE IsSubseq(_, _)
IsSubseq(a, b) ==
    IF a = <<>> THEN TRUE
    ELSE IF b = <<>> THEN FALSE
    ELSE IF Head(a) = Head(b) THEN IsSubseq(Tail(a), Tail(b))
    ELSE IsSubseq(a, Tail(b))

\* The messages sender s has sent, in send order.
SentSeq(s) == [k \in 1 .. SentBy(s) |-> <<s, k>>]

C2_Exclusive ==
    /\ running <= 1
    /\ running = 1 => pc \in {"h_unsync", "h_sync"}
    /\ pc \in {"ctxpoll", "ended", "outer"} => running = 0

\* A handler is running while another thread has put a message into the
\* sync mailbox, and more is queued in the local mailbox.
C2_Witness ==
    /\ running = 1
    /\ sync_msgs.q # <<>>
    /\ unsync_msgs.q # <<>>

\* C4: Supervisor address stability.  While the supervisor has not
\* terminated, every address to the supervised actor reports connected.
C4_AddressStable ==
    (Supervised /\ task # "done")
        => \A s \in Senders : addr[s].n > 0 => AddrConnected(s)

\* After two restarts a cloned local address and a sync address are held.
C4_Witness ==
    /\ hist.restarts >= 2
    /\ addr["l1"].n = 2
    /\ addr["s1"].n > 0
    /\ task = "running"

\* C5: Supervised delivery.  For a supervised actor the handled messages
\* of each sender are a subsequence of what that sender sent, in send
\* order, and no message is handled twice.
C5_Subsequence ==
    Supervised =>
        /\ \A s \in Senders : IsSubseq(OfSender(handled, s), SentSeq(s))
        /\ \A i, j \in DOMAIN handled : i # j => handled[i] # handled[j]

\* A message was lost to a failure, and a message sent after it by the same
\* sender was handled after the restart.
C5_Witness ==
    /\ Supervised
    /\ hist.restarts > 0
    /\ \E s \in Senders :
          /\ <<s, 1>> \in hist.lost
          /\ Len(handled) >= 2
          /\ handled[Len(handled)] = <<s, 2>>

\* Some address to the actor is held.
SenderAlive == \E s \in Senders : addr[s].n > 0

\* The envelopes that are in a mailbox or in dispatch.
Queued ==
    EnvIds(unsync_msgs.q) \cup EnvIds(sync_msgs.q)
        \cup (IF running > 0 THEN {cur.id} ELSE {})

\* A step of Supervisor::restart.
RestartStep == hist'.restarts # hist.restarts

\* C6: Restart trigger.  When the wrapped context has resolved or failed
\* and a sender is alive on either mailbox, the supervisor restarts and
\* keeps running; it terminates only when no sender is alive.
C6_RestartTrigger ==
    [][/\ (Supervised /\ pc = "ended" /\ pc' # "ended" /\ SenderAlive)
            => (RestartStep /\ task' = "running" /\ ctx' = NewContext)
       /\ (Supervised /\ task = "running" /\ task' = "done")
            => ~SenderAlive]_vars

\* The supervisor has restarted the context while only a sync address was
\* left.
C6_Witness ==
    /\ mode = "start"
    /\ hist.restarts > 0
    /\ pc = "outer"
    /\ ctx = NewContext
    /\ addr["l1"].n = 0
    /\ addr["s1"].n > 0

\* C7 as stated: once no sender remains the supervisor terminates,
\* whatever the stopping() hook of the actor does.
C7_TerminatesAlways ==
    (Supervised /\ task = "running" /\ ~SenderAlive) ~> (task = "done")

\* C7, amended: once no sender remains the supervisor terminates under fair
\* polling, provided the stopping() hook of the actor does not veto.
C7_Terminates ==
    (Supervised /\ task = "running" /\ ~SenderAlive /\ ~Vetoes(act))
        ~> (task = "done")

\* The supervisor has terminated after it had restarted the context.
C7_Witness ==
    /\ Supervised
    /\ task = "done"
    /\ ~Vetoes(act)
    /\ hist.restarts > 0

\* C8 as stated: restart leaves both mailboxes as they are, and every
\* envelope queued at a restart is dispatched.
C8_AllDispatched ==
    [][/\ RestartStep => (unsync_msgs' = unsync_msgs /\ sync_msgs' = sync_msgs)
       /\ (Supervised /\ task' = "done")
            => hist'.atRestart \subseteq Range(handled')]_vars

\* C8, amended: restart leaves both mailboxes as they are, and an envelope
\* queued at a restart stays queued until it is dispatched, unless the
\* supervisor terminates first.
C8_RestartKeepsMailbox ==
    [][/\ RestartStep => (unsync_msgs' = unsync_msgs /\ sync_msgs' = sync_msgs)
       /\ Supervised =>
            \A i \in hist'.atRestart :
                i \in Range(handled') \/ i \in Queued' \/ task' = "done"]_vars

\* An envelope that was queued at a restart has been dispatched to the
\* restarted actor.
C8_Witness ==
    /\ Supervised
    /\ hist.restarts > 0
    /\ Len(handled) = 2
    /\ handled[2] \in hist.atRestart

\* C9 as stated: the factory runs once at start and once for each restart.
C9_FactoryPerRestart ==
    (Supervised /\ task # "none") => hist.factory = 1 + hist.restarts

\* C9, amended: every restart builds a fresh Context and puts the existing
\* actor into it; the factory runs once, at start, and never again.
C9_FactoryOnce ==
    (Supervised /\ task # "none")
        => (hist.factory = 1 /\ hist.ctxnew = 1 + hist.restarts)

\* The supervisor has restarted twice.
C9_Witness ==
    /\ Supervised
    /\ hist.restarts = 2

\* C10: restart does not re-create the actor.  The actor value after
\* restart() is the one before it, but for what restarting() changed.
C10_ActorKept ==
    [][RestartStep => act' = [act EXCEPT !.restarted = @ + 1]]_vars

\* The context was just restarted around an actor that has processed a
\* message.
C10_Witness ==
    /\ Supervised
    /\ pc = "outer"
    /\ ctx = NewContext
    /\ act.restarted > 0
    /\ act.count > 0

\* A Request that has not resolved yet.
Pending(i) == req[i] \in {"queued", "held", "dead"}

Dispatches(i) == Cardinality({k \in DOMAIN handled : handled[k] = i})

\* C11: Lost in-flight message.  An envelope whose handler failed, or whose
\* response future was pending in the context that ended, is not in a
\* mailbox again, was dispatched once, and its Request has resolved with
\* Closed.
C11_LostInFlight ==
    Supervised =>
        \A i \in hist.lost :
            /\ req[i] = "closed"
            /\ i \notin EnvIds(unsync_msgs.q) \cup EnvIds(sync_msgs.q)
            /\ Dispatches(i) = 1

\* A message whose response future was pending was lost when a later
\* message stopped the context, and the supervisor has restarted.
C11_Witness ==
    /\ Supervised
    /\ hist.restarts > 0
    /\ Len(handled) = 2
    /\ handled[1] \in hist.lost
    /\ req[handled[1]] = "closed"
    /\ act.count = 2

\* The handler of the current envelope returns in this step.
HandlerReturns == running = 1 /\ running' = 0

\* Message i is in one of the mailboxes.
InMailbox(i) == i \in EnvIds(unsync_msgs.q) \cup EnvIds(sync_msgs.q)

NoMail ==
    /\ unsync_msgs.q = <<>>
    /\ sync_msgs.q = <<>>
    /\ running = 0
    /\ \A i \in MsgIds : req[i] # "held"

C15_StopsCompletely ==
    (/\ task = "running" /\ ~SenderAlive /\ NoMail /\ CtxIsAlive(ctx)
     /\ ctx.items = {} /\ ctx.wait = "none" /\ act.policy = "never")
        ~> (ctx.state = "STOPPED" /\ act.stopping /\ act.stopped)

\* An unsupervised actor whose only address was dropped before any
\* message was sent has started, stopped and ended.
C15_Witness ==
    /\ mode = "plain"
    /\ task = "done"
    /\ handled = <<>>
    /\ ctx.state = "STOPPED"
    /\ act.started /\ act.stopping /\ act.stopped

\* The stopping hook runs in this step: the context enters STOPPING or
\* STOPPED, or consumes a stop request while it is in STOPPING.
StopHookRuns ==
    /\ ctx'.state \in {"STOPPING", "STOPPED"}
    /\ ctx'.state # ctx.state \/ (ctx.stopReq /\ ~ctx'.stopReq)

\* A handler that calls ctx.stop() runs to its end in this step.
HandlerStops ==
    \/ HandlerReturns /\ cur.kind = "Die"
    \/ /\ mode = "plain"
       /\ handled' # handled
       /\ Head(sync_msgs.q).kind = "Die"

\* C14: A live address keeps the actor running.  While an address is
\* held, a stop is requested only by a handler that calls stop(), and the
\* stopping and stopped hooks run only after such a request; started has
\* run before them.
C14_LiveAddress ==
    [][/\ ((ctx'.stopReq /\ ~ctx.stopReq /\ SenderAlive) => HandlerStops)
       /\ ((StopHookRuns /\ SenderAlive) => ctx.stopReq)
       /\ (StopHookRuns => act'.started)
       /\ ((SenderAlive /\ ~StopHookRuns)
             => (act'.stopping = act.stopping /\ act'.stopped = act.stopped))
      ]_vars

\* An address is held, two messages were handled and the task is parked:
\* the actor has started and neither stopping nor stopped has run.
C14_Witness ==
    /\ task = "running"
    /\ pc = "parked"
    /\ SenderAlive
    /\ NoMail
    /\ Len(handled) = 2
    /\ act.started /\ ~act.stopping /\ ~act.stopped

\* C16: Veto defers stopped.  A stopping hook that vetoes leaves the
\* context in STOPPING, with stopped not invoked and the task not ended;
\* stopped is invoked only in a step that enters the stop transition again
\* and whose stopping hook does not veto.
C16_VetoDefers ==
    [][/\ ((StopHookRuns /\ act.policy = "always")
             => /\ act'.stopping
                /\ act'.stopped = act.stopped
                /\ ctx'.state = "STOPPING"
                /\ task' = task)
       /\ ((act'.stopped /\ ~act.stopped)
             => (StopHookRuns /\ act.policy = "never"))
       /\ (act'.policy = "always"
             => (~act'.stopped /\ ctx'.state # "STOPPED"))
      ]_vars

\* An unsupervised actor without addresses whose stopping hook has vetoed:
\* started and stopping have run, stopped has not, the task goes on.
C16_Witness ==
    /\ mode = "plain"
    /\ task = "running"
    /\ ~SenderAlive
    /\ act.policy = "always"
    /\ act.started /\ act.stopping /\ act.vetoed /\ ~act.stopped
    /\ ctx.state = "STOPPING"

\* A handler is entered in this step.
HandlerEntered == Len(handled') > Len(handled)

\* C17: Lifecycle hook ordering.  A handler is entered only in a context
\* whose started hook has run (the context has left NEW), also after a
\* restart; stopped is never invoked without stopping.
C17_HookOrdering ==
    [][/\ (HandlerEntered => (act.started /\ ctx.state # "NEW"))
       /\ (act'.stopped => act'.stopping)
       /\ ((act'.stopped /\ ~act.stopped) => StopHookRuns)
      ]_vars

\* After a failure and a restart a handler is running in the new context,
\* which has started.
C17_Witness ==
    /\ Supervised
    /\ running = 1
    /\ hist.restarts > 0
    /\ hist.lost # {}
    /\ ctx.state = "RUNNING"
    /\ act.started

\* Sequence a is a prefix of sequence b.
IsPrefix(a, b) == Len(a) <= Len(b) /\ SubSeq(b, 1, Len(a)) = a

\* C18: wait(f) blocks the mailbox.  While the future given to wait has
\* not completed no handler is entered and nothing is taken from the local
\* or the sync mailbox: what is queued stays at the front of its queue
\* (until the task ends and drops the mailboxes).
C18_WaitBlocks ==
    [][ctx.wait = "pending"
         => /\ handled' = handled
            /\ running' = running
            /\ task' = task
                 => /\ IsPrefix(unsync_msgs.q, unsync_msgs'.q)
                    /\ IsPrefix(sync_msgs.q, sync_msgs'.q)]_vars

\* The supervisor has returned from poll with the wait marker set by the
\* handler of the first message of a local sender, whose second message is
\* still queued.
C18_Witness ==
    /\ Supervised
    /\ pc = "parked"
    /\ ctx.wait = "pending"
    /\ Len(handled) = 1
    /\ handled[1][1] \in LocalSenders
    /\ EnvIds(unsync_msgs.q) # {}

\* try_send, or do_send, of message i returns in this step.
Tried(i) == req[i] = "unsent" /\ req'[i] \in {"t_ok", "t_full", "t_closed"}
DidSend(i) == req[i] = "unsent" /\ req'[i] \in {"d_ok", "d_full", "d_closed"}

\* The receiver of the sync mailbox is alive; the mailbox is at capacity.
MailboxOpen == SyncRxAlive(sync_msgs.gen)
AtCapacity == Capacity # 0 /\ Len(sync_msgs.q) >= Capacity

\* The number of envelopes of message i in queue q.
Occurrences(q, i) == Cardinality({k \in DOMAIN q : q[k].id = i})

\* C19: try_send.  On a closed mailbox try_send returns Closed, on an open
\* bounded mailbox at capacity it returns Full; both hand back the message
\* they were given and leave the queue as it is.  When it returns Ok the
\* message was appended to the queue, once.
C19_TrySend ==
    [][\A i \in MsgIds :
         Tried(i) =>
           /\ (~MailboxOpen => req'[i] = "t_closed")
           /\ ((MailboxOpen /\ AtCapacity) => req'[i] = "t_full")
           /\ ((MailboxOpen /\ ~AtCapacity) => req'[i] = "t_ok")
           /\ (req'[i] \in {"t_full", "t_closed"}
                 => /\ env'[i] = hist'.given[i]
                    /\ env'[i] \in Kinds
                    /\ sync_msgs' = sync_msgs)
           /\ (req'[i] = "t_ok"
                 => /\ sync_msgs'.q =
                         Append(sync_msgs.q,
                                [id |-> i, kind |-> hist'.given[i]])
                    /\ Occurrences(sync_msgs'.q, i) = 1)]_vars

\* try_send has returned Full on a running actor's mailbox that holds as
\* many envelopes as its capacity, and the caller has the message back.
C19_Witness ==
    /\ task = "running"
    /\ Len(sync_msgs.q) = MailboxCapacity
    /\ \E i \in MsgIds : req[i] = "t_full" /\ env[i] = hist.given[i]

\* C20: do_send ignores the capacity.  On an open mailbox do_send appends
\* the message whatever the length of the queue, it never reports Full, and
\* it fails (leaving the queue as it is) only on a closed mailbox.
C20_DoSend ==
    [][\A i \in MsgIds :
         DidSend(i) =>
           /\ req'[i] # "d_full"
           /\ (MailboxOpen
                 => /\ req'[i] = "d_ok"
                    /\ sync_msgs'.q =
                         Append(sync_msgs.q,
                                [id |-> i, kind |-> hist'.given[i]]))
           /\ (~MailboxOpen
                 => (req'[i] = "d_closed" /\ sync_msgs' = sync_msgs))]_vars

\* do_send has put a message into a mailbox that was at capacity: the
\* queue is longer than the capacity.
C20_Witness ==
    /\ task = "running"
    /\ Len(sync_msgs.q) > MailboxCapacity
    /\ req[sync_msgs.q[Len(sync_msgs.q)].id] = "d_ok"

\* send of message i returns its Request in this step.
Sends(i) == req[i] = "unsent" /\ req'[i] \in {"queued", "held", "dead"}

\* The Request of message i, which held its message, enqueues it or gives
\* up in this step.
Unparks(i) == req[i] = "held" /\ req'[i] # "held"

\* C21: send neither loses nor duplicates.  On an open mailbox send
\* enqueues the envelope at once or, when the mailbox is at capacity,
\* keeps the message in the Request, which enqueues it once on a later
\* poll; on a closed mailbox nothing is enqueued and the Request resolves
\* with Closed.  A Request gets the reply only after its envelope was
\* enqueued and handled; when the mailbox closes a Request whose envelope
\* was enqueued resolves in that step, and afterwards a Request resolves
\* only with Closed.  A message is never in the mailbox or in the hands of
\* a handler more than once.
C21_SendExactlyOnce ==
    [][\A i \in MsgIds :
         /\ Sends(i) =>
              /\ ((MailboxOpen /\ ~AtCapacity)
                    => /\ req'[i] = "queued"
                       /\ \E k \in Kinds :
                            sync_msgs'.q =
                               Append(sync_msgs.q, [id |-> i, kind |-> k]))
              /\ ((MailboxOpen /\ AtCapacity)
                    => /\ req'[i] = "held"
                       /\ env'[i] \in Kinds
                       /\ sync_msgs' = sync_msgs)
              /\ (~MailboxOpen => (req'[i] = "dead" /\ sync_msgs' = sync_msgs))
         /\ Unparks(i) =>
              \/ /\ req'[i] = "queued"
                 /\ MailboxOpen
                 /\ sync_msgs'.q =
                       Append(sync_msgs.q, [id |-> i, kind |-> env[i]])
              \/ /\ req'[i] = "closed"
                 /\ ~MailboxOpen
                 /\ sync_msgs' = sync_msgs
         /\ (req[i] = "dead" /\ req'[i] # "dead") => req'[i] = "closed"
         /\ (req'[i] = "replied" /\ req[i] # "replied")
              => (req[i] = "queued" /\ i \in Range(handled') /\ MailboxOpen)
         /\ (req[i] = "queued" /\ MailboxOpen /\ ~MailboxOpen')
              => req'[i] \in {"replied", "closed"}
         /\ (Pending(i) /\ ~MailboxOpen) => req'[i] \in {req[i], "closed"}
         /\ req'[i] = "queued"
              => Occurrences(sync_msgs'.q, i) + Dispatches(i)' = 1
         /\ req'[i] = "held"
              => (Occurrences(sync_msgs'.q, i) + Dispatches(i)' = 0
                  /\ env'[i] \in Kinds)
         /\ Occurrences(sync_msgs'.q, i) + Dispatches(i)' <= 1]_vars

\* A Request that was made while the mailbox was full has enqueued its
\* message on a later poll and has resolved with the reply; the message was
\* handled once.
C21_Witness ==
    /\ mode = "plain"
    /\ \E i \in hist.parked :
          /\ req[i] = "replied"
          /\ Dispatches(i) = 1
          /\ Occurrences(sync_msgs.q, i) = 0

\* The Request of message i is dropped in this step: while it still held
\* the message, or after its envelope was enqueued.
Cancels(i) == req[i] = "held" /\ req'[i] = "cancelled"
Discards(i) == req[i] = "queued" /\ req'[i] = "discarded"

\* C22: Request cancellation.  A message whose Request is dropped while it
\* still holds it (the mailbox was full) is never enqueued and never
\* handled.  Dropping a Request whose envelope was enqueued leaves the
\* mailbox as it is; the envelope stays queued until it is dispatched like
\* any other (unless the context ends first), the handler runs once and the
\* reply is not delivered.
C22_Cancellation ==
    /\ [][\A i \in MsgIds :
            /\ req'[i] = "cancelled"
                 => /\ ~InMailbox(i)'
                    /\ i \notin Range(handled')
                    /\ env'[i] = "None"
            /\ req[i] \in {"cancelled", "discarded"} => req'[i] = req[i]
            /\ (Cancels(i) \/ Discards(i))
                 => (sync_msgs' = sync_msgs /\ handled' = handled)
            /\ Discards(i) => (InMailbox(i) \/ i \in Range(handled))
            /\ (req[i] = "discarded" /\ InMailbox(i))
                 => \/ InMailbox(i)'
                    \/ Dispatches(i)' = 1
                    \/ task' = "done"
            /\ req'[i] = "discarded"
                 => Occurrences(sync_msgs'.q, i) + Dispatches(i)' <= 1]_vars
    /\ \A i \in MsgIds :
          (req[i] = "discarded" /\ InMailbox(i))
              ~> (i \in Range(handled) \/ task = "done")

\* One Request was dropped while it held its message, which is in no
\* mailbox and was not handled; another was dropped after its envelope was
\* enqueued, and the handler has run for it all the same.
C22_Witness ==
    /\ task = "running"
    /\ \E i, j \in MsgIds :
          /\ i \in hist.parked /\ req[i] = "cancelled"
          /\ req[j] = "discarded" /\ j \in Range(handled)

\* The Request of message i resolves with a value in this step.
Resolves(i) == req[i] # "replied" /\ req'[i] = "replied"

\* C23: Each Request resolves with the reply to its own message.  The
\* value a Request resolves with is the sum of the two fields of the Sum
\* message that was given to its send, and it resolves in the step in which
\* the handler invocation for that message completes, not before.
C23_OwnReply ==
    [][\A i \in MsgIds :
         /\ Resolves(i)
              => /\ hist'.reply[i] = hist.given[i][1] + hist.given[i][2]
                 /\ handled' = Append(handled, i)
                 /\ Dispatches(i)' = 1
                 /\ \A j \in MsgIds \ {i} :
                       (req'[j] = req[j] /\ hist'.reply[j] = hist.reply[j])
         /\ req[i] = "replied"
              => (req'[i] = "replied" /\ hist'.reply[i] = hist.reply[i])]_vars

\* Two Requests for different sums have both resolved, each with the sum
\* of its own message; one of them was made while the mailbox was full.
C23_Witness ==
    /\ mode = "plain"
    /\ \E i, j \in MsgIds :
          /\ req[i] = "replied" /\ req[j] = "replied"
          /\ hist.reply[i] = 15 /\ hist.given[i] = <<10, 5>>
          /\ hist.reply[j] = 20
          /\ j \in hist.parked

\* The handler of envelope i has been entered and has returned.
Consumed(i) == i \in Range(handled) /\ ~(running > 0 /\ cur.id = i)

\* Envelope i was consumed and its reply channel is still owned by a
\* response future of the living context.
ReplyOwed(i) == req[i] = "queued" /\ i \in ctx.items /\ task = "running"

\* C24: Envelope reply invariant.  Once an envelope was consumed from a
\* mailbox, by the context of an unsupervised actor or by a supervisor, and
\* its handler has returned, its reply was sent or its reply channel was
\* dropped, unless a response future of the living context still owns the
\* channel; such a future owns the channel of an unanswered envelope only.
\* Reply sent and channel dropped exclude each other and are final.
C24_ReplyInvariant ==
    [][\A i \in MsgIds :
         /\ Consumed(i)'
              => \/ req'[i] = "replied"
                 \/ req'[i] = "closed"
                 \/ ReplyOwed(i)'
         /\ (i \in ctx'.items /\ task' = "running") => req'[i] = "queued"
         /\ (ReplyOwed(i) /\ ~ReplyOwed(i)')
              => req'[i] \in {"replied", "closed"}
         /\ req[i] \in {"replied", "closed"} => req'[i] = req[i]]_vars

\* A supervisor has consumed two envelopes: the reply of one was sent, the
\* reply channel of the other was dropped with the context that failed.
C24_Witness ==
    /\ Supervised
    /\ hist.restarts > 0
    /\ \E i, j \in MsgIds :
          /\ Consumed(i) /\ req[i] = "replied"
          /\ Consumed(j) /\ req[j] = "closed" /\ j \in hist.lost

\* The number N of envelopes a poll cycle may dispatch (16 in the
\* specification's example, scaled down).
PollBatch == 2

\* C25: Bounded work per poll cycle.  A poll cycle of the supervisor
\* dispatches at most N envelopes before it yields, also when the handlers
\* keep refilling the local mailbox.
C25_BoundedCycle == hist.cycle <= PollBatch

\* What the loops of the supervisor do instead: poll returns NotReady only
\* when the context waits or when both mailboxes were found empty, however
\* many envelopes it has dispatched by then.
C25_DrainsAll ==
    [][(Supervised /\ pc # "parked" /\ pc' = "parked" /\ task' = "running"
          /\ ~CtxWaiting(ctx'))
         => (unsync_msgs.q = <<>> /\ (sync_msgs.some => sync_msgs.q = <<>>))
      ]_vars

\* One call of poll has dispatched the message of a local sender and every
\* message that the handlers sent after it, more than N in all, and has
\* then returned.
C25_Witness ==
    /\ Supervised
    /\ pc = "parked"
    /\ hist.cycle = 1 + MaxResends
    /\ hist.cycle > PollBatch
    /\ hist.sent = 1

\* The Context of the unsupervised actor has ended.
ContextEnded == mode = "plain" /\ task = "done"

\* do_send on a Recipient returns in this step.
RecipientDidSend(i) == req[i] = "unsent" /\ req'[i] \in {"r_ok", "r_closed"}

\* C26 as stated: once the Context has ended, try_send and do_send report
\* Closed to their caller, on every address and every recipient.
C26_AllReportClosed ==
    [][ContextEnded =>
         \A i \in MsgIds :
            (Tried(i) \/ DidSend(i) \/ RecipientDidSend(i))
                => Returned(i)' = "Closed"]_vars

\* C26, amended: once the Context of an unsupervised actor has ended,
\* connected() is false on every address and recipient that is left,
\* try_send returns Closed with the message, do_send on a Recipient returns
\* Closed, do_send on an Address returns nothing and the message is dropped,
\* send returns a Request that can only resolve with Closed; the mailbox
\* stays empty and no handler is entered any more.
C26_ClosedAfterEnd ==
    [][ContextEnded =>
         /\ \A s \in Senders : ~AddrConnected(s)
         /\ ~MailboxOpen
         /\ \A i \in MsgIds :
               /\ Tried(i) => (Returned(i)' = "Closed"
                               /\ env'[i] = hist'.given[i])
               /\ RecipientDidSend(i) => Returned(i)' = "Closed"
               /\ DidSend(i) => (Returned(i)' = "Unit" /\ req'[i] = "d_closed")
               /\ Sends(i) => req'[i] = "dead"
               /\ (Pending(i) /\ req'[i] # req[i]) => req'[i] = "closed"
               /\ req[i] \in {"replied", "closed"} => req'[i] = req[i]
         /\ handled' = handled
         /\ sync_msgs'.q = <<>>
         /\ sync_msgs.q = <<>>
         /\ ContextEnded']_vars

\* The handler of the first message has stopped the Context, which has
\* ended; the sender, which still holds its address, has then used do_send
\* on it: the message was dropped and the caller was told nothing.
C26_Witness ==
    /\ ContextEnded
    /\ addr["s1"].n > 0
    /\ ~AddrConnected("s1")
    /\ handled = <<(<<"s1", 1>>)>>
    /\ req[<<"s1", 2>>] = "d_closed"
    /\ Returned(<<"s1", 2>>) = "Unit"
    /\ sync_msgs.q = <<>>

\* A Resolve message for a bare host name, without a port.
BareHost(message) ==
    /\ ~message.port.some
    /\ \A k \in DOMAIN message.name : message.name[k] \in HostLabels

\* C27: Resolver round trip.  A Resolve request for a bare host name
\* without a port resolves to a non-empty set of socket addresses or to a
\* Resolver(...) error, never to an empty set or another kind of error.
C27_ResolveBareHost ==
    \A i \in MsgIds :
        (req[i] = "replied" /\ BareHost(hist.given[i]))
            => \/ hist.reply[i].tag = "Ok" /\ hist.reply[i].addrs # <<>>
               \/ hist.reply[i].tag = "Resolver"

\* What Resolver::new and poll do instead: a name that is no socket
\* address and has no ':' in it gets InvalidInput, whether a port was given
\* with it or not; every other name gets a non-empty address set or a
\* Resolver error.
C27_NoColonInvalid ==
    \A i \in MsgIds :
        req[i] = "replied" =>
            LET name == hist.given[i].name
                r == hist.reply[i]
            IN  IF \A k \in DOMAIN name : name[k] # ":"
                THEN r.tag = "InvalidInput"
                ELSE \/ r.tag = "Ok" /\ r.addrs # <<>>
                     \/ r.tag = "Resolver"

\* The request made with Resolve::host("localhost") has resolved with
\* InvalidInput.
C27_Witness ==
    \E i \in MsgIds :
        /\ req[i] = "replied"
        /\ hist.given[i] = Resolve_host(<<"localhost">>)
        /\ hist.reply[i].tag = "InvalidInput"

\* C28: restarting hook.  Each restart invokes restarting() once, on the
\* actor as it sits in the fresh context; the hook is invoked nowhere else,
\* and a handler is entered only when the hook has run for every restart so
\* far (and the fresh context has started).
C28_RestartingHook ==
    [][/\ RestartStep
            => /\ act'.restarted = act.restarted + 1
               /\ hist'.restarts = hist.restarts + 1
               /\ ctx' = NewContext
               /\ handled' = handled
               /\ running = 0 /\ running' = 0
       /\ (act'.restarted # act.restarted) => RestartStep
       /\ act'.restarted = hist'.restarts
       /\ HandlerEntered
            => (act.restarted = hist.restarts /\ ctx.state # "NEW")]_vars

\* The supervisor has restarted; restarting() has run once and the
\* restarted actor is handling an envelope that was in the mailbox at the
\* restart.
C28_Witness ==
    /\ Supervised
    /\ hist.restarts = 1
    /\ act.restarted = 1
    /\ act.started
    /\ running = 1
    /\ cur.id \in hist.atRestart

\* The supervisor of start_in does not exist yet: the Execute closure is
\* in flight.
BeforeExecute == mode = "start_in" /\ task = "none"

\* The step of the Execute closure.
ExecuteStep == BeforeExecute /\ task' = "running"

\* The ids of the envelopes in queue q, in the order of q.
QueueIds(q) == [k \in DOMAIN q |-> q[k].id]

EnvelopeTaken ==
    /\ Supervised
    /\ task' = "running"
    /\ \/ Len(unsync_msgs'.q) < Len(unsync_msgs.q)
       \/ Len(sync_msgs'.q) < Len(sync_msgs.q)

\* The supervisor stands in one of its mailbox loops with a dead context.
DeadInLoop ==
    /\ Supervised
    /\ ~CtxIsAlive(ctx)
    /\ pc = "unsync" \/ (pc = "sync" /\ sync_msgs.some)

\* C30: the supervisor never dispatches an envelope to a dead context.  An
\* envelope is taken from the local or the sync mailbox, and a handler is
\* entered, only while the wrapped context is alive; a mailbox loop that
\* finds the context dead takes nothing and its next step continues 'outer
\* (senders may still enqueue meanwhile); and a dead
\* context is never revived: the supervisor has a live context again only
\* by restart(), after ctx.poll() has ended.
C30_NoDispatchToDead ==
    [][/\ EnvelopeTaken => CtxIsAlive(ctx)
       /\ (Supervised /\ HandlerEntered) => CtxIsAlive(ctx)
       /\ DeadInLoop
            => /\ pc' \in {pc, "outer"}
               /\ Len(unsync_msgs'.q) >= Len(unsync_msgs.q)
               /\ Len(sync_msgs'.q) >= Len(sync_msgs.q)
               /\ handled' = handled
       /\ (Supervised /\ task = "running" /\ ~CtxIsAlive(ctx)
             /\ CtxIsAlive(ctx'))
            => (pc = "ended" /\ RestartStep /\ SenderAlive)]_vars

\* A handler has panicked with a second envelope behind it in the sync
\* mailbox; the loop has left the envelope where it is and gone back to
\* 'outer.
C30_Witness ==
    /\ Supervised
    /\ pc = "outer"
    /\ ctx.poisoned
    /\ Len(handled) = 1
    /\ sync_msgs.q # <<>>
    /\ hist.restarts = 0

\* The step that answers an Upgrade request taken from the local mailbox.
UpgradeAnswered ==
    /\ Supervised
    /\ pc = "unsync"
    /\ unsync_msgs.q # <<>>
    /\ Head(unsync_msgs.q).kind = "Upgrade"
    /\ unsync_msgs'.q = Tail(unsync_msgs.q)

\* Every sync address that is held is a sender of the channel whose
\* receiver the supervisor has.
OneSyncMailbox ==
    \A s \in SyncSenders :
        addr[s].n > 0 => (sync_msgs.some /\ addr[s].gen = sync_msgs.gen)

\* C31: a supervisor has at most one sync mailbox.  The receiver is set
\* once, by start_in or by the first Upgrade request answered, and is never
\* unset or replaced, by restart() or otherwise; an Upgrade request is
\* answered with a sender of that channel and leaves what the channel holds
\* in place; every sync address held is a sender of the channel the
\* supervisor polls.
C31_OneSyncMailbox ==
    [][/\ sync_msgs.some => sync_msgs'.some
       /\ sync_msgs'.gen = sync_msgs.gen
       /\ (Supervised' /\ ~sync_msgs.some /\ sync_msgs'.some)
            => (UpgradeAnswered \/ (mode = "none" /\ mode' = "start_in"))
       /\ UpgradeAnswered
            => /\ sync_msgs'.some
               /\ sync_msgs'.q = sync_msgs.q
               /\ \E t \in SyncSenders :
                     /\ Head(unsync_msgs.q).id[1] = t
                     /\ addr'[t].n > 0
                     /\ addr'[t].gen = sync_msgs'.gen
       /\ RestartStep => sync_msgs' = sync_msgs
       /\ OneSyncMailbox']_vars

\* The sync channel was created by an Upgrade request; the address it
\* handed out carried one message before a restart and one after it.
C31_Witness ==
    /\ mode = "start"
    /\ sync_msgs.some
    /\ addr["s1"].n > 0
    /\ hist.restarts = 1
    /\ handled = <<(<<"s1", 1>>), (<<"s1", 2>>)>>
    /\ hist.atRestart = {<<"s1", 2>>}

\* The supervisor has returned NotReady with the context waiting.
ParkedWaiting ==
    /\ Supervised
    /\ task = "running"
    /\ pc = "parked"
    /\ CtxWaiting(ctx)

\* C32: mailbox processing resumes after wait.  When the supervisor has
\* returned NotReady because the context is waiting, the context is
\* eventually polled again and the wait ends, and every envelope queued in
\* the local or the sync mailbox at that point is eventually dispatched
\* (unless the supervisor terminates first).
C32_ResumesAfterWait ==
    /\ ParkedWaiting ~> (~CtxWaiting(ctx) \/ task = "done")
    /\ \A i \in MsgIds :
          (ParkedWaiting /\ InMailbox(i))
              ~> (i \in Range(handled) \/ task = "done")

\* When ctx.poll() has polled the wait future before the supervisor
\* returned NotReady (the return after match ctx.poll()), the wait ends and
\* the queued envelopes are dispatched.
C32_PolledWaitResumes ==
    /\ (ParkedWaiting /\ hist.regs.wait)
          ~> (~CtxWaiting(ctx) \/ task = "done")
    /\ \A i \in MsgIds :
          (ParkedWaiting /\ hist.regs.wait /\ InMailbox(i) /\ []SenderAlive)
              ~> (i \in Range(handled))

\* The first envelope, sent before the Execute closure ran, called
\* wait(f); the mailbox loop returned NotReady before f was ever polled.
\* f is ready, a second envelope is queued, and nothing holds the task to
\* notify it.
C32_Witness ==
    /\ ParkedWaiting
    /\ mode = "start_in"
    /\ handled = <<(<<"s1", 1>>)>>
    /\ ctx.wait = "ready"
    /\ InMailbox(<<"s1", 2>>)
    /\ hist.quiet
    /\ ~hist.regs.wait
    /\ hist.regs.sync = 0
    /\ ~ENABLED Notify

====
